---- MODULE Spec2Model ----
(***************************************************************************)
(* Model of the hello-agent "lite" agent: the sandbox path resolver        *)
(* (tools/sandbox.js), the tool executor (tools/index.js), the model       *)
(* output parser and the agent loop (agent-lite index.js).                 *)
(*                                                                         *)
(* Strings are sequences of tokens.  A token is an atomic piece of text:   *)
(* "/" is the path separator, "." a dot, " " a whitespace character,       *)
(* "sandbox-lite" the sandbox directory's name, "2" a further character    *)
(* (so <<"sandbox-lite", "2">> is the name sandbox-lite2), and so on.      *)
(* Prefix tests, trimming, splitting and joining are computed on these     *)
(* sequences as the code computes them on characters.                      *)
(***************************************************************************)
EXTENDS Integers, Sequences, FiniteSets, TLC

VARIABLES
  \* ---- filesystem (shared by every invocation) ----
  dirs,        \* set of absolute paths that are directories
  files,       \* function: absolute path of a regular file -> its content
  \* ---- one runTool call (tools/index.js) ----
  tpc,         \* "idle", "ensureSandbox", "readdir", "readFile", "mkdirParent",
               \* "writeFile", "writeData", "returned", "threw"
  tname,       \* name argument
  targs,       \* args argument
  ttarget,     \* local `target`
  tret,        \* value the call resolved with
  terr,        \* message of the error the call rejected with
  tops,        \* filesystem operations performed by the current call, in order
  \* ---- resolveSandboxPath applied on its own ----
  rpc,         \* "off", "input", "applied"
  ruserPath,   \* the argument
  rresult,     \* the outcome
  \* ---- one runLiteAgent invocation (agent-lite index.js) ----
  pc,            \* "off", "start", "awaitModel", "awaitTool", "done", "failed"
  input,         \* the input parameter
  includeSteps,  \* the includeSteps parameter
  maxIterations, \* the maxIterations parameter, after defaulting
  env,           \* process.env: which variables are set
  mock,          \* which model answers: "any" or "list_files"
  iteration,     \* loop variable
  messages,      \* local `messages`
  steps,         \* local `steps`
  content,       \* local `content` of the current iteration
  action,        \* local `action` of the current iteration
  result,        \* the value the invocation resolved with
  error,         \* message of the error the invocation rejected with
  \* ---- observation of one invocation ----
  modelCalls,    \* number of callModel calls made
  toolExecs,     \* number of runTool calls made
  execLog,       \* the runTool calls that returned, in order
  model,         \* local `model`: the model identifier sent with every request
  heard,         \* what callModel and runTool resolved with for this invocation, in order
  \* ---- a second runTool call in flight, and what write_file has reported ----
  parked,      \* the call of the other concurrent invocation while this one runs
  waiting,     \* the other concurrent runLiteAgent invocation, at one of its awaits
  written,     \* function: absolute path -> content of the last write_file that
               \* returned its confirmation for that path
  previous,    \* function: absolute path -> content of the confirmed write_file
               \* before the last one for that path
  \* ---- one POST /run-lite request (runLiteRoute.js) ----
  hpc,         \* "off", "received", "awaitAgent", "responded"
  reqBody,     \* req.body: its input and includeSteps fields
  resStatus,   \* status of the response
  resBody,     \* JSON body of the response
  responses,   \* number of responses sent
  \* ---- parseModelOutput applied on its own ----
  ppc,         \* "off", "input", "applied"
  praw,        \* the argument
  pout,        \* the outcome
  \* ---- getExecutor of the /run endpoint (agent.js) ----
  cachedExecutor, \* module variable: Null, or the executor object cached
  gpc,            \* per call: "off", "pull", "createAgent", "returned", "threw"
  gret,           \* per call: the executor object it returned, or Null
  built           \* number of AgentExecutor objects constructed so far

toolVars == <<tpc, tname, targs, ttarget, tret, terr, tops>>
fsVars == <<dirs, files>>
resolveVars == <<rpc, ruserPath, rresult>>
agentVars == <<pc, input, includeSteps, maxIterations, env, mock, iteration, messages,
               steps, content, action, result, error, modelCalls, toolExecs, execLog, model,
               heard>>
routeVars == <<hpc, reqBody, resStatus, resBody, responses>>
parseVars == <<ppc, praw, pout>>
executorVars == <<cachedExecutor, gpc, gret, built>>
writeVars == <<written, previous>>
\* What the steps of one call leave alone besides the state named in the step.
restVars == <<routeVars, parseVars, parked, waiting, executorVars>>
vars == <<fsVars, toolVars, resolveVars, agentVars, writeVars, restVars>>

----------------------------------------------------------------------------
(* Strings *)

StartsWith(s, p) == Len(p) <= Len(s) /\ SubSeq(s, 1, Len(p)) = p

EndsWith(s, p) == Len(p) <= Len(s) /\ SubSeq(s, Len(s) - Len(p) + 1, Len(s)) = p

IsSpace(c) == c \in {" ", "\n"}

RECURSIVE TrimStart(_)
TrimStart(s) == IF s # <<>> /\ IsSpace(Head(s)) THEN TrimStart(Tail(s)) ELSE s

RECURSIVE TrimEnd(_)
TrimEnd(s) ==
  IF s # <<>> /\ IsSpace(s[Len(s)]) THEN TrimEnd(SubSeq(s, 1, Len(s) - 1)) ELSE s

trim(s) == TrimEnd(TrimStart(s))

\* Outcome of an operation that returns a value or throws an error message.
Ok(v) == [ok |-> TRUE, value |-> v]
Err(msg) == [ok |-> FALSE, value |-> msg]

----------------------------------------------------------------------------
(* JSON values as the parser and the tools see them.  A field is a value   *)
(* with its JavaScript type; only strings carry text.                      *)

Str(s) == [t |-> "string", s |-> s]
NonStr(t) == [t |-> t, s |-> <<>>]
Absent == NonStr("absent")

\* args: its JavaScript type and, for an object, its keys.
ArgsOf(t) == [t |-> t, filePath |-> Absent, content |-> Absent, extra |-> FALSE]
ArgsObject(fp, c, extra) == [t |-> "object", filePath |-> fp, content |-> c, extra |-> extra]
EmptyObject == ArgsOf("object")

----------------------------------------------------------------------------
(* Paths: node's path.resolve, path.dirname on POSIX *)

sep == "/"

RECURSIVE SplitPath(_)
SplitPath(s) ==
  IF s = <<>> THEN << <<>> >>
  ELSE IF Head(s) = sep THEN << <<>> >> \o SplitPath(Tail(s))
  ELSE LET rest == SplitPath(Tail(s))
       IN  << <<Head(s)>> \o Head(rest) >> \o Tail(rest)

RECURSIVE NormalizeSegments(_, _)
NormalizeSegments(segs, acc) ==
  IF segs = <<>> THEN acc
  ELSE LET h == Head(segs)
       IN  IF h = <<>> \/ h = <<".">>
             THEN NormalizeSegments(Tail(segs), acc)
           ELSE IF h = <<".", ".">>
             THEN NormalizeSegments(Tail(segs),
                    IF acc = <<>> THEN acc ELSE SubSeq(acc, 1, Len(acc) - 1))
           ELSE NormalizeSegments(Tail(segs), Append(acc, h))

RECURSIVE JoinSegments(_)
JoinSegments(segs) ==
  IF segs = <<>> THEN <<>> ELSE <<sep>> \o Head(segs) \o JoinSegments(Tail(segs))

AbsolutePath(segs) == IF segs = <<>> THEN <<sep>> ELSE JoinSegments(segs)

\* path.resolve(base, p) for an absolute, normalized base.
pathResolve(base, p) ==
  LET joined == IF p # <<>> /\ Head(p) = sep THEN p ELSE base \o <<sep>> \o p
  IN  AbsolutePath(NormalizeSegments(SplitPath(joined), <<>>))

\* Segments of a normalized absolute path ("/" has none).
Segments(path) == NormalizeSegments(SplitPath(path), <<>>)

\* path.dirname of a normalized absolute path.
pathDirname(path) ==
  LET segs == Segments(path)
  IN  IF segs = <<>> THEN <<sep>> ELSE AbsolutePath(SubSeq(segs, 1, Len(segs) - 1))

\* path.basename of a normalized absolute path other than "/".
pathBasename(path) == LET segs == Segments(path) IN segs[Len(segs)]

repoRoot == <<sep>>

SANDBOX_DIR == pathResolve(repoRoot, <<"sandbox-lite">>)

\* Containment tests: a naive string prefix, and one that forgets the root itself.
IsInsideSandbox_NaivePrefix(target) == StartsWith(target, SANDBOX_DIR)
IsInsideSandbox_NotRoot(target) == StartsWith(target, SANDBOX_DIR \o <<sep>>)

IsInsideSandbox(target) ==
  target = SANDBOX_DIR \/ StartsWith(target, SANDBOX_DIR \o <<sep>>)

\* Joining the path to the root without resolving or checking it.
resolveSandboxPath_JoinOnly(userPath) == Ok(SANDBOX_DIR \o <<sep>> \o userPath)

\* Resolving without the containment check.
resolveSandboxPath_NoCheck(userPath) == Ok(pathResolve(SANDBOX_DIR, userPath))

resolveSandboxPath(userPath) ==
  LET target == pathResolve(SANDBOX_DIR, userPath)
  IN  IF ~IsInsideSandbox(target)
        THEN Err(<<"Path escapes sandbox: ">> \o userPath)
        ELSE Ok(target)

----------------------------------------------------------------------------
(* Filesystem operations of node:fs/promises *)

\* The path itself and all its ancestors.
Ancestors(path) ==
  LET segs == Segments(path)
  IN  {AbsolutePath(SubSeq(segs, 1, k)) : k \in 0..Len(segs)}

\* fs.mkdir(path, {recursive: true}): fails when a component is a regular file.
MkdirFails(path, fl) == \E q \in Ancestors(path) : q \in DOMAIN fl
MkdirDirs(path, ds) == ds \cup Ancestors(path)

\* A listing that descends into the directories below dir.
Entries_Recursive(dir, ds, fl) ==
  {pathBasename(p) : p \in {q \in (ds \cup DOMAIN fl) : StartsWith(q, dir \o <<sep>>)}}

\* Names of the entries directly in directory dir: fs.readdir (line 81).

Entries(dir, ds, fl) ==
  {pathBasename(p) : p \in {q \in (ds \cup DOMAIN fl) : q # dir /\ pathDirname(q) = dir}}

\* All orders in which readdir may report a set of names.
Orderings(names) ==
  {f \in [1..Cardinality(names) -> names] :
     \A i, j \in 1..Cardinality(names) : i # j => f[i] # f[j]}

RECURSIVE JoinLines(_)
JoinLines(names) ==
  IF names = <<>> THEN <<>>
  ELSE IF Len(names) = 1 THEN Head(names)
  ELSE Head(names) \o <<"\n">> \o JoinLines(Tail(names))

\* fs.writeFile(path, content): the parent must be a directory, the path no directory.
WriteFileError(path, ds, fl) ==
  IF path \in ds THEN <<"EISDIR">>
  ELSE IF pathDirname(path) \notin ds THEN <<"ENOENT">>
  ELSE <<>>

\* A write that leaves an existing file as it is.
WriteFileFiles_KeepExisting(path, data, fl) ==
  IF path \in DOMAIN fl THEN fl
  ELSE [q \in (DOMAIN fl) \cup {path} |-> IF q = path THEN data ELSE fl[q]]

\* The files after fs.writeFile(path, data) (line 94).

WriteFileFiles(path, data, fl) ==
  [q \in (DOMAIN fl) \cup {path} |-> IF q = path THEN data ELSE fl[q]]

\* The files after the data of fs.writeFile(path, data) is written through
\* the descriptor opened for it (line 94): the data goes to the start of the
\* file and what the file holds beyond it stays.

WriteData(path, data, fl) ==
  WriteFileFiles(path, data \o SubSeq(fl[path], Len(data) + 1, Len(fl[path])), fl)

\* The record of confirmed writes after write_file returns "Wrote ..." for path.
Confirmed(path, data, w) ==
  [q \in (DOMAIN w) \cup {path} |-> IF q = path THEN data ELSE w[q]]

\* fs.readFile(path, "utf8")
ReadFileError(path, ds, fl) ==
  IF path \in DOMAIN fl THEN <<>>
  ELSE IF path \in ds THEN <<"EISDIR">>
  ELSE <<"ENOENT">>

FsOp(op, path) == [op |-> op, path |-> path]

----------------------------------------------------------------------------
(* Tool executor: tools/index.js *)

\* A tool set with a fourth tool registered.
TOOL_DEFINITIONS_WithDelete ==
  << [name |-> <<"list_files">>, required |-> {}],
     [name |-> <<"read_file">>, required |-> {"filePath"}],
     [name |-> <<"write_file">>, required |-> {"filePath", "content"}],
     [name |-> <<"delete_file">>, required |-> {}] >>

\* The registered tools (lines 5-34).

TOOL_DEFINITIONS ==
  << [name |-> <<"list_files">>, required |-> {}],
     [name |-> <<"read_file">>, required |-> {"filePath"}],
     [name |-> <<"write_file">>, required |-> {"filePath", "content"}] >>

TOOL_NAMES == {TOOL_DEFINITIONS[i].name : i \in DOMAIN TOOL_DEFINITIONS}

getToolDefinitions == TOOL_DEFINITIONS

\* A check that lets a string of white space pass.
assertNonEmptyString_NoTrim(value, field) ==
  IF value.t # "string" \/ Len(value.s) = 0
    THEN <<field, " must be a non-empty string.">>
    ELSE <<>>

\* <<>> when the value passes, else the error message (lines 42-46).

assertNonEmptyString(value, field) ==
  IF value.t # "string" \/ Len(trim(value.s)) = 0
    THEN <<field, " must be a non-empty string.">>
    ELSE <<>>

\* Object.keys(args).length
KeyCount(args) ==
  (IF args.filePath.t # "absent" THEN 1 ELSE 0)
  + (IF args.content.t # "absent" THEN 1 ELSE 0)
  + (IF args.extra THEN 1 ELSE 0)

\* A validation that lets list_files take any object.
validateArgs_ListTakesKeys(name, args) ==
  IF args.t # "object" THEN <<"args must be an object.">>
  ELSE IF name = <<"list_files">> THEN <<>>
  ELSE IF name = <<"read_file">>
    THEN assertNonEmptyString(args.filePath, "filePath")
  ELSE IF name = <<"write_file">>
    THEN IF assertNonEmptyString(args.filePath, "filePath") # <<>>
           THEN assertNonEmptyString(args.filePath, "filePath")
           ELSE assertNonEmptyString(args.content, "content")
  ELSE <<>>

\* <<>> when the arguments pass, else the error message (lines 48-70).

validateArgs(name, args) ==
  IF args.t # "object" THEN <<"args must be an object.">>
  ELSE IF name = <<"list_files">>
    THEN IF KeyCount(args) > 0 THEN <<"list_files does not accept arguments.">> ELSE <<>>
  ELSE IF name = <<"read_file">>
    THEN assertNonEmptyString(args.filePath, "filePath")
  ELSE IF name = <<"write_file">>
    THEN IF assertNonEmptyString(args.filePath, "filePath") # <<>>
           THEN assertNonEmptyString(args.filePath, "filePath")
           ELSE assertNonEmptyString(args.content, "content")
  ELSE <<>>

ToolThrows(msg) ==
  /\ tpc' = "threw"
  /\ terr' = msg
  /\ tret' = <<>>

ToolReturns(value) ==
  /\ tpc' = "returned"
  /\ tret' = value
  /\ terr' = <<>>

\* A dispatcher that validates the arguments before it looks the name up, and
\* one that does not validate them at all.
runTool_ValidateFirst(name, args) ==
  /\ tname' = name
  /\ targs' = args
  /\ ttarget' = <<>>
  /\ tops' = <<>>
  /\ IF validateArgs(name, args) # <<>>
       THEN ToolThrows(validateArgs(name, args))
     ELSE IF name \notin TOOL_NAMES
       THEN ToolThrows(<<"Unknown tool: ">> \o name)
     ELSE /\ tpc' = "ensureSandbox"
          /\ tret' = <<>>
          /\ terr' = <<>>
runTool_NoValidation(name, args) ==
  /\ tname' = name
  /\ targs' = args
  /\ ttarget' = <<>>
  /\ tops' = <<>>
  /\ IF name \notin TOOL_NAMES
       THEN ToolThrows(<<"Unknown tool: ">> \o name)
       ELSE /\ tpc' = "ensureSandbox"
            /\ tret' = <<>>
            /\ terr' = <<>>

\* runTool(name, args) up to its first await (lines 72-78).

runTool(name, args) ==
  /\ tname' = name
  /\ targs' = args
  /\ ttarget' = <<>>
  /\ tops' = <<>>
  /\ IF name \notin TOOL_NAMES
       THEN ToolThrows(<<"Unknown tool: ">> \o name)
     ELSE IF validateArgs(name, args) # <<>>
       THEN ToolThrows(validateArgs(name, args))
     ELSE /\ tpc' = "ensureSandbox"
          /\ tret' = <<>>
          /\ terr' = <<>>

\* ensureSandbox() completes; runTool continues to its next await, or to the
\* throw at its end when no branch handles the name (lines 78-98).
EnsureSandboxDone ==
  /\ tpc = "ensureSandbox"
  /\ UNCHANGED <<tname, targs, files, resolveVars, agentVars, writeVars, restVars>>
  /\ tops' = Append(tops, FsOp("mkdir", SANDBOX_DIR))
  /\ IF MkdirFails(SANDBOX_DIR, files)
       THEN /\ ToolThrows(<<"EEXIST">>)
            /\ UNCHANGED <<dirs, ttarget>>
       ELSE /\ dirs' = MkdirDirs(SANDBOX_DIR, dirs)
            /\ IF tname = <<"list_files">>
                 THEN /\ tpc' = "readdir"
                      /\ UNCHANGED <<ttarget, tret, terr>>
               ELSE IF tname \notin {<<"read_file">>, <<"write_file">>}
                 THEN /\ ToolThrows(<<"Unhandled tool: ">> \o tname)
                      /\ UNCHANGED ttarget
                 ELSE LET r == resolveSandboxPath(targs.filePath.s)
                      IN  IF ~r.ok
                            THEN /\ ToolThrows(r.value)
                                 /\ UNCHANGED ttarget
                            ELSE /\ ttarget' = r.value
                                 /\ tpc' = IF tname = <<"read_file">>
                                             THEN "readFile" ELSE "mkdirParent"
                                 /\ UNCHANGED <<tret, terr>>

\* A listing without the marker for the empty case.
ListingText_NoMarker(names) == JoinLines(names)

\* names.length ? names.join("\n") : "(empty)" (line 83).

ListingText(names) == IF Len(names) # 0 THEN JoinLines(names) ELSE <<"(empty)">>

\* fs.readdir(SANDBOX_DIR) completes; list_files returns (lines 81-83).
ReaddirDone ==
  /\ tpc = "readdir"
  /\ UNCHANGED <<tname, targs, ttarget, fsVars, resolveVars, agentVars, writeVars, restVars>>
  /\ tops' = Append(tops, FsOp("readdir", SANDBOX_DIR))
  /\ IF SANDBOX_DIR \notin dirs
       THEN ToolThrows(<<"ENOENT">>)
       ELSE \E names \in Orderings(Entries(SANDBOX_DIR, dirs, files)) :
              ToolReturns(ListingText(names))

\* fs.readFile(target) completes; read_file returns (line 88).
ReadFileDone ==
  /\ tpc = "readFile"
  /\ UNCHANGED <<tname, targs, ttarget, fsVars, resolveVars, agentVars, writeVars, restVars>>
  /\ tops' = Append(tops, FsOp("readFile", ttarget))
  /\ IF ReadFileError(ttarget, dirs, files) # <<>>
       THEN ToolThrows(ReadFileError(ttarget, dirs, files))
       ELSE ToolReturns(files[ttarget])

\* fs.mkdir(path.dirname(target)) completes (line 93).
MkdirParentDone ==
  /\ tpc = "mkdirParent"
  /\ UNCHANGED <<tname, targs, ttarget, files, resolveVars, agentVars, writeVars, restVars>>
  /\ tops' = Append(tops, FsOp("mkdir", pathDirname(ttarget)))
  /\ IF MkdirFails(pathDirname(ttarget), files)
       THEN /\ ToolThrows(<<"ENOTDIR">>)
            /\ UNCHANGED dirs
       ELSE /\ dirs' = MkdirDirs(pathDirname(ttarget), dirs)
            /\ tpc' = "writeFile"
            /\ UNCHANGED <<tret, terr>>

\* fs.writeFile(target, content) has opened the file for writing, which
\* creates it or cuts it to length zero; the data is still to be written
\* (line 94).
WriteFileOpened ==
  /\ tpc = "writeFile"
  /\ UNCHANGED <<tname, targs, ttarget, dirs, resolveVars, agentVars, writeVars, restVars>>
  /\ tops' = Append(tops, FsOp("writeFile", ttarget))
  /\ IF WriteFileError(ttarget, dirs, files) # <<>>
       THEN /\ ToolThrows(WriteFileError(ttarget, dirs, files))
            /\ UNCHANGED files
       ELSE /\ files' = WriteFileFiles(ttarget, <<>>, files)
            /\ tpc' = "writeData"
            /\ UNCHANGED <<tret, terr>>

\* fs.writeFile(target, content) completes: the data is written and
\* write_file returns (lines 94-95).
WriteFileDone ==
  /\ tpc = "writeData"
  /\ UNCHANGED <<tname, targs, ttarget, tops, dirs, resolveVars, agentVars, restVars>>
  /\ files' = WriteData(ttarget, targs.content.s, files)
  /\ written' = Confirmed(ttarget, targs.content.s, written)
  /\ previous' = (IF ttarget \in DOMAIN written
                    THEN Confirmed(ttarget, written[ttarget], previous)
                    ELSE previous)
  /\ ToolReturns(<<"Wrote ">> \o targs.filePath.s)

----------------------------------------------------------------------------
(* Initial filesystem: the repository root holds other entries next to the *)
(* sandbox; the sandbox itself is created lazily and may hold files.       *)

SiblingDir == <<sep, "sandbox-lite", "2">>
SiblingFile == SiblingDir \o <<sep, "a">>
RootFile == <<sep, "a">>
SandboxFile == SANDBOX_DIR \o <<sep, "a">>
SandboxSubdir == SANDBOX_DIR \o <<sep, "d">>

OutsideDirs0 == {repoRoot, SiblingDir}
OutsideFiles0 == [q \in {SiblingFile, RootFile} |-> <<"secret">>]

InitFs ==
  \/ /\ dirs = OutsideDirs0
     /\ files = OutsideFiles0
  \/ /\ dirs = OutsideDirs0 \cup {SANDBOX_DIR}
     /\ files = OutsideFiles0
  \/ /\ dirs = OutsideDirs0 \cup {SANDBOX_DIR, SandboxSubdir}
     /\ files = WriteFileFiles(SandboxFile, <<"old">>, OutsideFiles0)

ToolIdle ==
  /\ tpc = "idle"
  /\ tname = <<>>
  /\ targs = EmptyObject
  /\ ttarget = <<>>
  /\ tret = <<>>
  /\ terr = <<>>
  /\ tops = <<>>

ResolveOff ==
  /\ rpc = "off"
  /\ ruserPath = <<>>
  /\ rresult = Ok(<<>>)

NoAction == [kind |-> "none", type |-> Absent, name |-> Absent,
             args |-> ArgsOf("absent"), content |-> Absent]
NoResult == [unresolved |-> TRUE]
Undefined == <<"undefined">>

AgentOff ==
  /\ pc = "off"
  /\ input = Absent
  /\ includeSteps = FALSE
  /\ maxIterations = 0
  /\ env = [OPENAI_API_KEY |-> FALSE, OPENAI_MODEL |-> FALSE, OPENAI_LITE_MODEL |-> FALSE]
  /\ mock = "any"
  /\ iteration = 0
  /\ messages = <<>>
  /\ steps = <<>>
  /\ content = Undefined
  /\ action = NoAction
  /\ result = NoResult
  /\ error = <<>>
  /\ modelCalls = 0
  /\ toolExecs = 0
  /\ execLog = <<>>
  /\ model = <<>>
  /\ heard = <<>>

NoCall == [tpc |-> "idle", tname |-> <<>>, targs |-> EmptyObject, ttarget |-> <<>>,
           tret |-> <<>>, terr |-> <<>>, tops |-> <<>>]
\* No second invocation.
NoInvocation ==
  [pc |-> "off", input |-> Absent, includeSteps |-> FALSE, maxIterations |-> 0,
   iteration |-> 0, messages |-> <<>>, steps |-> <<>>, content |-> Undefined,
   action |-> NoAction, result |-> NoResult, error |-> <<>>, modelCalls |-> 0,
   toolExecs |-> 0, execLog |-> <<>>, model |-> <<>>, heard |-> <<>>, call |-> NoCall]
NoWrites == [q \in {} |-> <<>>]
NoBody == [input |-> Absent, includeSteps |-> Absent]
NoResponse == [none |-> TRUE]

RouteOff ==
  /\ hpc = "off"
  /\ reqBody = NoBody
  /\ resStatus = 0
  /\ resBody = NoResponse
  /\ responses = 0

ParseOff ==
  /\ ppc = "off"
  /\ praw = <<>>
  /\ pout = [ok |-> FALSE, action |-> NoAction, msg |-> <<>>]

\* The callers of getExecutor: requests to /run in one process.
NumCallers == 3
Callers == 1..NumCallers
Null == 0

ExecutorOff ==
  /\ cachedExecutor = Null
  /\ gpc = [c \in Callers |-> "off"]
  /\ gret = [c \in Callers |-> Null]
  /\ built = 0

SingleCall ==
  /\ parked = NoCall
  /\ waiting = NoInvocation
  /\ written = NoWrites
  /\ previous = NoWrites

----------------------------------------------------------------------------
(* resolveSandboxPath applied to every string up to a length *)

MaxPathLen == 6

PathAlphabet == {sep, ".", "sandbox-lite", "2", "a"}

PathStrings == UNION {[1..k -> PathAlphabet] : k \in 0..MaxPathLen}

InitResolve ==
  /\ rpc = "input"
  /\ ruserPath \in PathStrings
  /\ rresult = Ok(<<>>)
  /\ dirs = OutsideDirs0
  /\ files = OutsideFiles0
  /\ ToolIdle
  /\ AgentOff
  /\ SingleCall
  /\ ExecutorOff
  /\ RouteOff
  /\ ParseOff

ApplyResolve ==
  /\ rpc = "input"
  /\ rresult' = resolveSandboxPath(ruserPath)
  /\ rpc' = "applied"
  /\ UNCHANGED <<ruserPath, fsVars, toolVars, agentVars, writeVars, restVars>>

NextResolve == ApplyResolve

SpecResolve == InitResolve /\ [][NextResolve]_vars

----------------------------------------------------------------------------
(* runTool called directly, any number of times, with any name and args *)

ToolNameInputs == TOOL_NAMES \cup {<<"delete_file">>}

PathInputs ==
  { <<"a">>, <<"d", sep, "a">>, <<"d">>, <<".">>, <<".", ".">>,
    <<".", ".", sep, "a">>,
    <<".", ".", sep, "sandbox-lite", "2", sep, "a">>,
    <<".", ".", sep, "sandbox-lite", sep, "a">>,
    <<sep, "sandbox-lite", "2", sep, "a">>,
    <<sep, "sandbox-lite", sep, "a">>,
    <<sep, "a">>,
    <<"d", sep, ".", ".", sep, ".", ".", sep, "a">>,
    <<" ">> }

FilePathInputs == {Str(p) : p \in PathInputs} \cup {Str(<<>>), Absent, NonStr("number")}

ContentInputs == {Str(<<"hi">>), Str(<<" ">>), Str(<<>>), NonStr("number"), Absent}

ToolArgInputs ==
  {ArgsOf(t) : t \in {"absent", "null", "array", "number", "string"}}
  \cup {ArgsObject(fp, c, FALSE) : fp \in FilePathInputs, c \in ContentInputs}
  \cup {ArgsObject(Absent, Absent, TRUE)}

InitTools ==
  /\ InitFs
  /\ ToolIdle
  /\ ResolveOff
  /\ AgentOff
  /\ SingleCall
  /\ ExecutorOff
  /\ RouteOff
  /\ ParseOff

CallRunTool ==
  /\ pc = "off"
  /\ tpc \in {"idle", "returned", "threw"}
  /\ \E name \in ToolNameInputs, args \in ToolArgInputs : runTool(name, args)
  /\ UNCHANGED <<fsVars, resolveVars, agentVars, writeVars, restVars>>

NextTools ==
  \/ CallRunTool
  \/ EnsureSandboxDone
  \/ ReaddirDone
  \/ ReadFileDone
  \/ MkdirParentDone
  \/ WriteFileOpened
  \/ WriteFileDone

SpecTools == InitTools /\ [][NextTools]_vars

----------------------------------------------------------------------------
(* Two invocations calling read_file and write_file on one sandbox: their    *)
(* runTool calls interleave at every await                                   *)

ConcToolNames == {<<"read_file">>, <<"write_file">>}

ConcPathInputs == {<<"a">>, <<".", sep, "a">>, <<"d", sep, "a">>}

ConcArgInputs ==
  {ArgsObject(Str(fp), Absent, FALSE) : fp \in ConcPathInputs}
  \cup {ArgsObject(Str(fp), Str(c), FALSE) : fp \in ConcPathInputs, c \in {<<"hi">>, <<"yo", "!">>}}

\* The runTool call this invocation has in flight.
CurrentCall ==
  [tpc |-> tpc, tname |-> tname, targs |-> targs, ttarget |-> ttarget,
   tret |-> tret, terr |-> terr, tops |-> tops]

CallConcTools ==
  /\ pc = "off"
  /\ tpc \in {"idle", "returned", "threw"}
  /\ \E name \in ConcToolNames, args \in ConcArgInputs : runTool(name, args)
  /\ UNCHANGED <<fsVars, resolveVars, agentVars, writeVars, restVars>>

\* The event loop turns to the other invocation: its call becomes the one in
\* hand and this one waits at its await.
OtherInvocationRuns ==
  /\ pc = "off"
  /\ parked # CurrentCall
  /\ parked' = CurrentCall
  /\ tpc' = parked.tpc
  /\ tname' = parked.tname
  /\ targs' = parked.targs
  /\ ttarget' = parked.ttarget
  /\ tret' = parked.tret
  /\ terr' = parked.terr
  /\ tops' = parked.tops
  /\ UNCHANGED <<fsVars, resolveVars, agentVars, writeVars, routeVars, parseVars, waiting,
                 executorVars>>

NextConcurrent ==
  \/ CallConcTools
  \/ OtherInvocationRuns
  \/ EnsureSandboxDone
  \/ ReadFileDone
  \/ MkdirParentDone
  \/ WriteFileOpened
  \/ WriteFileDone

SpecConcurrent == InitTools /\ [][NextConcurrent]_vars

----------------------------------------------------------------------------
(* list_files between writes, one of them of a file named like the marker *)

ListToolNames == {<<"list_files">>, <<"write_file">>}

ListArgInputs ==
  { EmptyObject,
    ArgsObject(Str(<<"(empty)">>), Str(<<"hi">>), FALSE),
    ArgsObject(Str(<<"a">>), Str(<<"hi">>), FALSE),
    ArgsObject(Str(<<"a">>), Str(<<"yo">>), FALSE) }

CallListTools ==
  /\ pc = "off"
  /\ tpc \in {"idle", "returned", "threw"}
  /\ \E name \in ListToolNames, args \in ListArgInputs : runTool(name, args)
  /\ UNCHANGED <<fsVars, resolveVars, agentVars, writeVars, restVars>>

NextList ==
  \/ CallListTools
  \/ EnsureSandboxDone
  \/ ReaddirDone
  \/ MkdirParentDone
  \/ WriteFileOpened
  \/ WriteFileDone

SpecList == InitTools /\ [][NextList]_vars

----------------------------------------------------------------------------
(* The three tools called one after the other on a sandbox that starts     *)
(* without entries: files at the top level and in nested directories       *)

SeqPathInputs ==
  { <<"a">>, <<".", sep, "a">>, <<"b">>, <<"a", sep, "b", sep, "c.txt">>,
    <<"d", sep, "a">> }

SeqArgInputs ==
  {EmptyObject}
  \cup {ArgsObject(Str(fp), Absent, FALSE) : fp \in {<<"a">>, <<"d", sep, "a">>}}
  \cup {ArgsObject(Str(fp), Str(c), FALSE) :
          fp \in SeqPathInputs, c \in {<<"hi">>, <<"yo", "!">>}}

InitSeq ==
  /\ InitTools
  /\ files = OutsideFiles0

CallSeqTools ==
  /\ pc = "off"
  /\ tpc \in {"idle", "returned", "threw"}
  /\ \E name \in TOOL_NAMES, args \in SeqArgInputs : runTool(name, args)
  /\ UNCHANGED <<fsVars, resolveVars, agentVars, writeVars, restVars>>

NextSeq ==
  \/ CallSeqTools
  \/ EnsureSandboxDone
  \/ ReaddirDone
  \/ ReadFileDone
  \/ MkdirParentDone
  \/ WriteFileOpened
  \/ WriteFileDone

SpecSeq == InitSeq /\ [][NextSeq]_vars

----------------------------------------------------------------------------
(* Model output parser: agent-lite index.js, lines 30-76 *)

\* JSON documents a model may emit, each one token of text, with the value
\* JSON.parse decodes it to.
ToolDoc(name, args) ==
  [kind |-> "object", type |-> Str(<<"tool">>), name |-> name, args |-> args,
   content |-> Absent]
FinalDoc(text) ==
  [kind |-> "object", type |-> Str(<<"final">>), name |-> Absent,
   args |-> ArgsOf("absent"), content |-> text]
ObjectDoc(type) ==
  [kind |-> "object", type |-> type, name |-> Absent, args |-> ArgsOf("absent"),
   content |-> Absent]
ScalarDoc(kind) ==
  [kind |-> kind, type |-> Absent, name |-> Absent, args |-> ArgsOf("absent"),
   content |-> Absent]

ListFilesDoc == "{type:tool,name:list_files,args:{}}"

DocTable ==
  { <<"{type:final,content:Done.}", FinalDoc(Str(<<"Done.">>))>>,
    <<"{type:final,content:}", FinalDoc(Str(<<>>))>>,
    <<"{type:final}", FinalDoc(Absent)>>,
    <<"{type:final,content:42}", FinalDoc(NonStr("number"))>>,
    <<ListFilesDoc, ToolDoc(Str(<<"list_files">>), EmptyObject)>>,
    <<"{type:tool,name:list_files}", ToolDoc(Str(<<"list_files">>), ArgsOf("absent"))>>,
    <<"{type:tool,name:list_files,args:null}", ToolDoc(Str(<<"list_files">>), ArgsOf("null"))>>,
    <<"{type:tool,name:list_files,args:0}", ToolDoc(Str(<<"list_files">>), ArgsOf("zero"))>>,
    <<"{type:tool,name:list_files,args:[]}", ToolDoc(Str(<<"list_files">>), ArgsOf("array"))>>,
    <<"{type:tool,name:list_files,args:{x:1}}",
      ToolDoc(Str(<<"list_files">>), ArgsObject(Absent, Absent, TRUE))>>,
    <<"{type:tool,name:list_files,args:{filePath:a}}",
      ToolDoc(Str(<<"list_files">>), ArgsObject(Str(<<"a">>), Absent, FALSE))>>,
    <<"{type:tool,name:read_file,args:{filePath:a}}",
      ToolDoc(Str(<<"read_file">>), ArgsObject(Str(<<"a">>), Absent, FALSE))>>,
    <<"{type:tool,name:write_file,args:{filePath:a,content:hi}}",
      ToolDoc(Str(<<"write_file">>), ArgsObject(Str(<<"a">>), Str(<<"hi">>), FALSE))>>,
    <<"{type:tool,name:write_file,args:{filePath:d/a,content:yo}}",
      ToolDoc(Str(<<"write_file">>),
              ArgsObject(Str(<<"d", sep, "a">>), Str(<<"yo">>), FALSE))>>,
    <<"{type:tool,name:write_file,args:{filePath:../sandbox-lite2/a,content:hi}}",
      ToolDoc(Str(<<"write_file">>),
              ArgsObject(Str(<<".", ".", sep, "sandbox-lite", "2", sep, "a">>),
                         Str(<<"hi">>), FALSE))>>,
    <<"{type:tool,name:write_file,args:{filePath:a}}",
      ToolDoc(Str(<<"write_file">>), ArgsObject(Str(<<"a">>), Absent, FALSE))>>,
    <<"{type:tool,name:delete_file,args:{}}", ToolDoc(Str(<<"delete_file">>), EmptyObject)>>,
    <<"{type:tool}", ToolDoc(Absent, ArgsOf("absent"))>>,
    <<"{type:tool,name: }", ToolDoc(Str(<<" ">>), ArgsOf("absent"))>>,
    <<"{type:observation}", ObjectDoc(Str(<<"observation">>))>>,
    <<"{type:answer,content:Done.}",
      [kind |-> "object", type |-> Str(<<"answer">>), name |-> Absent,
       args |-> ArgsOf("absent"), content |-> Str(<<"Done.">>)]>>,
    <<"{type:Final,content:Done.}",
      [kind |-> "object", type |-> Str(<<"Final">>), name |-> Absent,
       args |-> ArgsOf("absent"), content |-> Str(<<"Done.">>)]>>,
    <<"{type:1,content:Done.}",
      [kind |-> "object", type |-> NonStr("number"), name |-> Absent,
       args |-> ArgsOf("absent"), content |-> Str(<<"Done.">>)]>>,
    <<"{content:Done.}",
      [kind |-> "object", type |-> Absent, name |-> Absent,
       args |-> ArgsOf("absent"), content |-> Str(<<"Done.">>)]>>,
    <<"{}", ObjectDoc(Absent)>>,
    <<"[]", ScalarDoc("array")>>,
    <<"null", ScalarDoc("null")>>,
    <<"42", ScalarDoc("number")>> }

DocTokens == {d[1] : d \in DocTable}
DocValue(tok) == (CHOOSE d \in DocTable : d[1] = tok)[2]

\* JSON.parse: whitespace around one document is allowed, anything else throws.
JSONparse(text) ==
  LET t == trim(text)
  IN  IF Len(t) = 1 /\ t[1] \in DocTokens
        THEN [ok |-> TRUE, value |-> DocValue(t[1])]
        ELSE [ok |-> FALSE, value |-> NoAction]

\* The code-fence marker: three backticks.
Fence == "<fence>"

\* A tag test that knows lower case only.
MatchesFenceJson_CaseSensitive(text) ==
  Len(text) >= 2 /\ text[1] = Fence /\ text[2] = "json"

\* The opening fence followed by the characters json in any case (line 33).

MatchesFenceJson(text) ==
  Len(text) >= 2 /\ text[1] = Fence /\ text[2] \in {"json", "JSON", "Json"}

\* A normalisation that only trims.
normalizeModelOutput_TrimOnly(raw) == trim(raw)

\* normalizeModelOutput (lines 30-41).

normalizeModelOutput(raw) ==
  LET text == trim(raw)
  IN  IF StartsWith(text, <<Fence>>)
        THEN LET t1 == IF MatchesFenceJson(text)
                         THEN <<Fence>> \o SubSeq(text, 3, Len(text)) ELSE text
                 t2 == Tail(t1)
                 t3 == IF EndsWith(t2, <<Fence>>) THEN SubSeq(t2, 1, Len(t2) - 1) ELSE t2
             IN  trim(t3)
        ELSE text

ParseOk(a) == [ok |-> TRUE, action |-> a, msg |-> <<>>]
ParseErr(msg) == [ok |-> FALSE, action |-> NoAction, msg |-> msg]

\* A parser that looks at the type before it has made sure of an object.
parseModelOutput_TypeCheckFirst(raw) ==
  LET p == JSONparse(normalizeModelOutput(raw))
      payload == p.value
  IN  IF ~p.ok
        THEN ParseErr(<<"Invalid model output format (expected JSON).">>)
      ELSE IF payload.type # Str(<<"tool">>) /\ payload.type # Str(<<"final">>)
        THEN ParseErr(<<"Invalid model output format (unknown type).">>)
      ELSE IF payload.kind # "object"
        THEN ParseErr(<<"Invalid model output format (expected JSON object).">>)
      ELSE IF payload.type = Str(<<"tool">>)
        THEN IF payload.name.t # "string" \/ Len(trim(payload.name.s)) = 0
               THEN ParseErr(<<"Tool call missing name.">>)
               ELSE ParseOk([payload EXCEPT
                              !.args = IF @.t \in {"absent", "null"} THEN EmptyObject ELSE @])
      ELSE IF payload.content.t # "string"
        THEN ParseErr(<<"Final response missing content.">>)
      ELSE ParseOk(payload)

\* A parser that tests the final content for truthiness instead of its type.
parseModelOutput_FalsyContent(raw) ==
  LET p == JSONparse(normalizeModelOutput(raw))
      payload == p.value
  IN  IF ~p.ok
        THEN ParseErr(<<"Invalid model output format (expected JSON).">>)
      ELSE IF payload.kind # "object"
        THEN ParseErr(<<"Invalid model output format (expected JSON object).">>)
      ELSE IF payload.type # Str(<<"tool">>) /\ payload.type # Str(<<"final">>)
        THEN ParseErr(<<"Invalid model output format (unknown type).">>)
      ELSE IF payload.type = Str(<<"tool">>)
        THEN IF payload.name.t # "string" \/ Len(trim(payload.name.s)) = 0
               THEN ParseErr(<<"Tool call missing name.">>)
               ELSE ParseOk([payload EXCEPT
                              !.args = IF @.t \in {"absent", "null"} THEN EmptyObject ELSE @])
      ELSE IF payload.content.t # "string" \/ payload.content.s = <<>>
        THEN ParseErr(<<"Final response missing content.">>)
      ELSE ParseOk(payload)

\* A parser that takes every object that is not a tool call for a final answer.
parseModelOutput_AnyTypeIsFinal(raw) ==
  LET p == JSONparse(normalizeModelOutput(raw))
      payload == p.value
  IN  IF ~p.ok
        THEN ParseErr(<<"Invalid model output format (expected JSON).">>)
      ELSE IF payload.kind # "object"
        THEN ParseErr(<<"Invalid model output format (expected JSON object).">>)
      ELSE IF payload.type = Str(<<"tool">>)
        THEN IF payload.name.t # "string" \/ Len(trim(payload.name.s)) = 0
               THEN ParseErr(<<"Tool call missing name.">>)
               ELSE ParseOk([payload EXCEPT
                              !.args = IF @.t \in {"absent", "null"} THEN EmptyObject ELSE @])
      ELSE IF payload.content.t # "string"
        THEN ParseErr(<<"Final response missing content.">>)
      ELSE ParseOk(payload)

\* parseModelOutput (lines 43-76).

parseModelOutput(raw) ==
  LET p == JSONparse(normalizeModelOutput(raw))
      payload == p.value
  IN  IF ~p.ok
        THEN ParseErr(<<"Invalid model output format (expected JSON).">>)
      ELSE IF payload.kind # "object"
        THEN ParseErr(<<"Invalid model output format (expected JSON object).">>)
      ELSE IF payload.type # Str(<<"tool">>) /\ payload.type # Str(<<"final">>)
        THEN ParseErr(<<"Invalid model output format (unknown type).">>)
      ELSE IF payload.type = Str(<<"tool">>)
        THEN IF payload.name.t # "string" \/ Len(trim(payload.name.s)) = 0
               THEN ParseErr(<<"Tool call missing name.">>)
               ELSE ParseOk([payload EXCEPT
                              !.args = IF @.t \in {"absent", "null"} THEN EmptyObject ELSE @])
      ELSE IF payload.content.t # "string"
        THEN ParseErr(<<"Final response missing content.">>)
      ELSE ParseOk(payload)

----------------------------------------------------------------------------
(* parseModelOutput applied to model texts: documents and other texts, bare *)
(* or wrapped the ways a model wraps them                                    *)

\* Texts that are not JSON.
NotJsonTexts ==
  { <<>>, <<"I will list the files.">>,
    <<"{type:final,content:Done.}", "Anything else?">>,
    <<"Sure:", "{type:final,content:Done.}">> }

TextBodies == {<<tok>> : tok \in DocTokens} \cup NotJsonTexts

WrapperNames ==
  {"bare", "padded", "fenced", "fenced-inline", "fenced-padded", "fenced-json",
   "fenced-JSON", "fenced-js", "fenced-jsonc", "fence-unclosed", "fence-trailing"}

Wrap(w, body) ==
  CASE w = "bare" -> body
    [] w = "padded" -> <<" ", "\n">> \o body \o <<"\n", " ">>
    [] w = "fenced" -> <<Fence, "\n">> \o body \o <<"\n", Fence>>
    [] w = "fenced-inline" -> <<Fence>> \o body \o <<Fence>>
    [] w = "fenced-padded" -> <<"\n", Fence, "\n", " ">> \o body \o <<" ", "\n", Fence, "\n">>
    [] w = "fenced-json" -> <<Fence, "json", "\n">> \o body \o <<"\n", Fence>>
    [] w = "fenced-JSON" -> <<Fence, "JSON", "\n">> \o body \o <<"\n", Fence>>
    [] w = "fenced-js" -> <<Fence, "js", "\n">> \o body \o <<"\n", Fence>>
    [] w = "fenced-jsonc" -> <<Fence, "json", "c", "\n">> \o body \o <<"\n", Fence>>
    [] w = "fence-unclosed" -> <<Fence, "\n">> \o body
    [] w = "fence-trailing" -> body \o <<"\n", Fence>>

ParseInputs == {Wrap(w, body) : w \in WrapperNames, body \in TextBodies}

InitParse ==
  /\ ppc = "input"
  /\ praw \in ParseInputs
  /\ pout = [ok |-> FALSE, action |-> NoAction, msg |-> <<>>]
  /\ dirs = OutsideDirs0
  /\ files = OutsideFiles0
  /\ ToolIdle
  /\ ResolveOff
  /\ AgentOff
  /\ SingleCall
  /\ ExecutorOff
  /\ RouteOff

ApplyParse ==
  /\ ppc = "input"
  /\ pout' = parseModelOutput(praw)
  /\ ppc' = "applied"
  /\ UNCHANGED <<praw, fsVars, toolVars, resolveVars, agentVars, writeVars, routeVars, parked, waiting, executorVars>>

NextParse == ApplyParse

SpecParse == InitParse /\ [][NextParse]_vars

----------------------------------------------------------------------------
(* Agent loop: agent-lite index.js, lines 78-139 *)

DEFAULT_MAX_ITERATIONS == 6

buildSystemPrompt(tools) ==
  <<"You are a tool-using agent.", "Available tools:">>
  \o [i \in DOMAIN tools |-> tools[i].name[1]]

\* What the adapter's request comes back with: a failure, or a response whose
\* first choice's message content is `choice`.
ApiFailure == [fail |-> TRUE, choice |-> Absent]
Completion(text) == [fail |-> FALSE, choice |-> Str(text)]
NoChoice == [fail |-> FALSE, choice |-> Absent]

\* A callModel that hands an empty or missing completion on as empty text.
callModel_AcceptsEmpty(response) ==
  IF response.fail THEN Err(<<"API error">>) ELSE Ok(response.choice.s)

\* callModel: the completion text, or the error thrown.

callModel(response) ==
  IF response.fail THEN Err(<<"API error">>)
  ELSE IF response.choice.t # "string" \/ response.choice.s = <<>>
    THEN Err(<<"Empty model response.">>)
  ELSE Ok(response.choice.s)

\* action.args || {}
OrEmptyObject(args) ==
  IF args.t \in {"absent", "null", "zero", "false", "emptystring"} THEN EmptyObject ELSE args

\* A tool step that leaves out the result.
ToolStepRecord_NoResult(name, args, res) == [type |-> "tool", name |-> name, args |-> args]

\* The step pushed at line 129.
ToolStepRecord(name, args, res) ==
  [type |-> "tool", name |-> name, args |-> args, result |-> res]

\* A final step recorded as if it were a tool step.
FinalStepRecord_AsTool(text) == [type |-> "tool", content |-> text]

\* The step pushed at line 124.

FinalStepRecord(text) == [type |-> "final", content |-> text]

\* An observation that leaves the tool's name out.
Observation_ResultOnly(name, res) == <<"{type:observation,result:">> \o res \o <<"}">>

\* JSON.stringify({type: "observation", name, result}) (lines 130-134).

Observation(name, res) == <<"{type:observation,name:">> \o name \o <<",result:">> \o res \o <<"}">>

Message(role, text) == [role |-> role, content |-> text]

\* A push that puts the new message in front.
push_Unshift(msgs, m) == <<m>> \o msgs

\* messages.push(m) (lines 121, 135).

push(msgs, m) == Append(msgs, m)

\* Return values that include the steps unasked, or return the raw model text.
ReturnValue_AlwaysSteps(inc, text, st) == [output |-> text, steps |-> st]
ReturnValue_RawText(inc, text, st) ==
  IF inc THEN [output |-> content', steps |-> st] ELSE [output |-> content']

\* The value returned on a final action (line 125).

ReturnValue(inc, text, st) ==
  IF inc THEN [output |-> text, steps |-> st] ELSE [output |-> text]

Fails(msg) ==
  /\ pc' = "failed"
  /\ error' = msg

\* Loop conditions that are off by one in either direction.
LoopContinues_OffByOne(i) == i <= maxIterations
LoopContinues_StopsEarly(i) == i + 1 < maxIterations

\* The loop condition (line 117).

LoopContinues(i) == i < maxIterations

\* Top of the for loop with loop variable i: the next model call is made, or
\* the loop ends and line 138 throws.
LoopHead(i) ==
  /\ iteration' = i
  /\ IF LoopContinues(i)
       THEN /\ pc' = "awaitModel"
            /\ modelCalls' = modelCalls + 1
            /\ UNCHANGED error
       ELSE /\ Fails(<<"Exceeded max iterations.">>)
            /\ UNCHANGED modelCalls

\* A message sequence that is one array for every invocation: a new
\* invocation finds the other's entries in it.
InitialMessages_Shared(text) ==
  waiting.messages \o << Message("system", buildSystemPrompt(getToolDefinitions)),
                         Message("user", text) >>

\* The messages array an invocation creates for itself (lines 112-115).

InitialMessages(text) ==
  << Message("system", buildSystemPrompt(getToolDefinitions)), Message("user", text) >>

\* An input check that does not trim.
InvalidInput_NoTrim(v) == v.t # "string" \/ Len(v.s) = 0

\* The input check of runLiteAgent (line 94).

InvalidInput(v) == v.t # "string" \/ Len(trim(v.s)) = 0

\* A model identifier that prefers the default variable.
ModelIdentifier_DefaultFirst(e) ==
  IF e.OPENAI_MODEL THEN <<"$OPENAI_MODEL">>
  ELSE IF e.OPENAI_LITE_MODEL THEN <<"$OPENAI_LITE_MODEL">>
  ELSE <<>>

\* process.env.OPENAI_LITE_MODEL || process.env.OPENAI_MODEL (line 99): the
\* value of the first of the two variables that is set, else nothing.

ModelIdentifier(e) ==
  IF e.OPENAI_LITE_MODEL THEN <<"$OPENAI_LITE_MODEL">>
  ELSE IF e.OPENAI_MODEL THEN <<"$OPENAI_MODEL">>
  ELSE <<>>

\* runLiteAgent up to its first await (lines 93-118).
Start ==
  /\ pc = "start"
  /\ UNCHANGED <<input, includeSteps, maxIterations, env, mock, content, action, result,
                 toolExecs, execLog, heard, fsVars, toolVars, resolveVars, writeVars, restVars>>
  /\ IF InvalidInput(input)
       THEN /\ Fails(<<"input must be a non-empty string.">>)
            /\ UNCHANGED <<iteration, messages, steps, modelCalls, model>>
     ELSE IF ~env.OPENAI_API_KEY
       THEN /\ Fails(<<"Missing OPENAI_API_KEY in environment.">>)
            /\ model' = ModelIdentifier(env)
            /\ UNCHANGED <<iteration, messages, steps, modelCalls>>
     ELSE IF ModelIdentifier(env) = <<>>
       THEN /\ Fails(<<"Missing OPENAI_MODEL in environment.">>)
            /\ model' = ModelIdentifier(env)
            /\ UNCHANGED <<iteration, messages, steps, modelCalls>>
     ELSE /\ steps' = <<>>
          /\ model' = ModelIdentifier(env)
          /\ messages' = InitialMessages(input.s)
          /\ LoopHead(0)

\* The completions the model may answer with.
AnyResponses ==
  { ApiFailure, NoChoice, Completion(<<>>),
    Completion(<<"I will list the files.">>),
    Completion(<<"{type:final,content:Done.}">>),
    Completion(<<Fence, "json", "\n", "{type:final,content:Done.}", "\n", Fence>>),
    Completion(<<"{type:final,content:}">>),
    Completion(<<"{type:final}">>),
    Completion(<<"{type:final,content:42}">>),
    Completion(<<ListFilesDoc>>),
    Completion(<<"{type:tool,name:list_files,args:0}">>),
    Completion(<<"{type:tool,name:list_files,args:{x:1}}">>),
    Completion(<<"{type:tool,name:list_files,args:{filePath:a}}">>),
    Completion(<<"{type:tool,name:read_file,args:{filePath:a}}">>),
    Completion(<<"{type:tool,name:write_file,args:{filePath:a,content:hi}}">>),
    Completion(<<"{type:tool,name:write_file,args:{filePath:d/a,content:yo}}">>),
    Completion(<<"{type:tool,name:write_file,args:{filePath:../sandbox-lite2/a,content:hi}}">>),
    Completion(<<"{type:tool,name:delete_file,args:{}}">>),
    Completion(<<"{type:tool}">>),
    Completion(<<"{type:observation}">>),
    Completion(<<"[]">>) }

\* A handful of completions: an answer, a listing, an escaping write, prose, a failure.
FewResponses ==
  { ApiFailure,
    Completion(<<"I will list the files.">>),
    Completion(<<"{type:final,content:Done.}">>),
    Completion(<<ListFilesDoc>>),
    Completion(<<"{type:tool,name:write_file,args:{filePath:../sandbox-lite2/a,content:hi}}">>) }

\* Completions that work on one file of the sandbox.
FileResponses ==
  { Completion(<<"I will list the files.">>),
    Completion(<<"{type:final,content:Done.}">>),
    Completion(<<ListFilesDoc>>),
    Completion(<<"{type:tool,name:read_file,args:{filePath:a}}">>),
    Completion(<<"{type:tool,name:write_file,args:{filePath:a,content:hi}}">>) }

ModelResponses ==
  IF mock = "list_files" THEN {Completion(<<ListFilesDoc>>)}
  ELSE IF mock = "files" THEN FileResponses
  ELSE IF mock = "few" THEN FewResponses
  ELSE AnyResponses

\* A parse failure answered by asking the model again.
ParseFailure_Reprompt(text, msg) ==
  /\ content' = text
  /\ messages' = Append(Append(messages, Message("assistant", text)), Message("user", msg))
  /\ pc' = "awaitModel"
  /\ modelCalls' = modelCalls + 1
  /\ UNCHANGED <<action, steps, result, error, toolExecs, toolVars>>

\* A parse failure that first records the offending text as an assistant message.
ParseFailure_PushFirst(text, msg) ==
  /\ content' = text
  /\ messages' = Append(messages, Message("assistant", text))
  /\ Fails(msg)
  /\ UNCHANGED <<action, steps, result, modelCalls, toolExecs, toolVars>>

\* parseModelOutput throws at line 119: the error leaves runLiteAgent.
ParseFailure(text, msg) ==
  /\ content' = text
  /\ Fails(msg)
  /\ UNCHANGED <<action, messages, steps, result, modelCalls, toolExecs, toolVars>>

\* The model call completes; the iteration continues to its next await or
\* to the end of the invocation (lines 118-128).
ModelResponds ==
  /\ pc = "awaitModel"
  /\ UNCHANGED <<input, includeSteps, maxIterations, env, mock, iteration,
                 execLog, model, fsVars, resolveVars, writeVars, restVars>>
  /\ \E response \in ModelResponses :
       LET c == callModel(response)
           parsed == parseModelOutput(c.value)
       IN  IF ~c.ok
             THEN /\ Fails(c.value)
                  /\ UNCHANGED <<content, action, messages, steps, result, modelCalls,
                                 toolExecs, toolVars, heard>>
           ELSE IF ~parsed.ok
             THEN /\ ParseFailure(c.value, parsed.msg)
                  /\ heard' = Append(heard, [from |-> "model", text |-> c.value])
           ELSE /\ content' = c.value
                /\ heard' = Append(heard, [from |-> "model", text |-> c.value])
                /\ action' = parsed.action
                /\ messages' = push(messages, Message("assistant", c.value))
                /\ UNCHANGED modelCalls
                /\ IF parsed.action.type = Str(<<"final">>)
                     THEN /\ steps' = Append(steps, FinalStepRecord(parsed.action.content.s))
                          /\ result' = ReturnValue(includeSteps, parsed.action.content.s, steps')
                          /\ pc' = "done"
                          /\ UNCHANGED <<error, toolExecs, toolVars>>
                     ELSE /\ runTool(parsed.action.name.s, OrEmptyObject(parsed.action.args))
                          /\ toolExecs' = toolExecs + 1
                          /\ pc' = "awaitTool"
                          /\ UNCHANGED <<steps, result, error>>

\* A tool failure fed back to the model as an observation.
ToolFailure_AsObservation(msg) ==
  /\ messages' = Append(messages, Message("user", Observation(action.name.s, msg)))
  /\ UNCHANGED <<steps, execLog>>
  /\ LoopHead(iteration + 1)

\* The awaited runTool rejects at line 128: the error leaves runLiteAgent.
ToolFailure(msg) ==
  /\ Fails(msg)
  /\ UNCHANGED <<iteration, messages, steps, modelCalls, execLog>>

\* The runTool call settles; the iteration ends and the loop goes on, or the
\* error propagates (lines 128-136, 117, 138).
ToolSettles ==
  /\ pc = "awaitTool"
  /\ tpc \in {"returned", "threw"}
  /\ UNCHANGED <<input, includeSteps, maxIterations, env, mock, content, action, result,
                 toolExecs, model, fsVars, resolveVars, tname, targs, ttarget, tret, terr,
                 tops, writeVars, restVars>>
  /\ tpc' = "idle"
  /\ heard' = (IF tpc = "threw" THEN heard
               ELSE Append(heard, [from |-> "tool", text |-> tret]))
  /\ IF tpc = "threw"
       THEN ToolFailure(terr)
       ELSE /\ steps' = Append(steps, ToolStepRecord(action.name.s, OrEmptyObject(action.args), tret))
            /\ messages' = push(messages, Message("user", Observation(action.name.s, tret)))
            /\ execLog' = Append(execLog, [name |-> tname, args |-> targs, result |-> tret])
            /\ LoopHead(iteration + 1)

----------------------------------------------------------------------------
(* One invocation against any model *)

MaxIter == 3

InputValues ==
  {Str(<<"List files in sandbox-lite, then write a hello.txt">>), Str(<<" ">>), Str(<<>>),
   NonStr("number"), Absent}

EnvValues ==
  { [OPENAI_API_KEY |-> TRUE, OPENAI_MODEL |-> TRUE, OPENAI_LITE_MODEL |-> FALSE],
    [OPENAI_API_KEY |-> TRUE, OPENAI_MODEL |-> TRUE, OPENAI_LITE_MODEL |-> TRUE],
    [OPENAI_API_KEY |-> TRUE, OPENAI_MODEL |-> FALSE, OPENAI_LITE_MODEL |-> TRUE],
    [OPENAI_API_KEY |-> TRUE, OPENAI_MODEL |-> FALSE, OPENAI_LITE_MODEL |-> FALSE],
    [OPENAI_API_KEY |-> FALSE, OPENAI_MODEL |-> TRUE, OPENAI_LITE_MODEL |-> FALSE],
    [OPENAI_API_KEY |-> FALSE, OPENAI_MODEL |-> FALSE, OPENAI_LITE_MODEL |-> FALSE] }

\* maxIterations = DEFAULT_MAX_ITERATIONS when the caller gives none.
MaxIterationsParam(given) == IF given = {} THEN DEFAULT_MAX_ITERATIONS ELSE CHOOSE n \in given : TRUE

AgentStart ==
  /\ pc = "start"
  /\ iteration = 0
  /\ messages = <<>>
  /\ steps = <<>>
  /\ content = Undefined
  /\ action = NoAction
  /\ result = NoResult
  /\ error = <<>>
  /\ modelCalls = 0
  /\ toolExecs = 0
  /\ execLog = <<>>
  /\ model = <<>>
  /\ heard = <<>>

Init ==
  /\ InitFs
  /\ ToolIdle
  /\ ResolveOff
  /\ AgentStart
  /\ SingleCall
  /\ ExecutorOff
  /\ RouteOff
  /\ ParseOff
  /\ mock = "any"
  /\ input \in InputValues
  /\ includeSteps \in BOOLEAN
  /\ env \in EnvValues
  /\ \E given \in {{n} : n \in 0..MaxIter} : maxIterations = MaxIterationsParam(given)

Next ==
  \/ Start
  \/ ModelResponds
  \/ EnsureSandboxDone
  \/ ReaddirDone
  \/ ReadFileDone
  \/ MkdirParentDone
  \/ WriteFileOpened
  \/ WriteFileDone
  \/ ToolSettles

Spec == Init /\ [][Next]_vars

Terminated == pc \in {"done", "failed"}

----------------------------------------------------------------------------
(* Two invocations of runLiteAgent at once.  Each runs from one await to   *)
(* the next; between two such runs the event loop may turn to the other.   *)
(* The locals of an invocation and its runTool call are its own; the       *)
(* filesystem is the same for both.                                        *)

MaxIterBoth == 2

FirstInput == Str(<<"List files in sandbox-lite, then write a hello.txt">>)
SecondInput == Str(<<"Read a">>)

\* The invocation in hand: its parameters, its locals, its runTool call.
ThisInvocation ==
  [pc |-> pc, input |-> input, includeSteps |-> includeSteps,
   maxIterations |-> maxIterations, iteration |-> iteration, messages |-> messages,
   steps |-> steps, content |-> content, action |-> action, result |-> result,
   error |-> error, modelCalls |-> modelCalls, toolExecs |-> toolExecs,
   execLog |-> execLog, model |-> model, heard |-> heard, call |-> CurrentCall]

InitBoth ==
  /\ InitFs
  /\ ToolIdle
  /\ ResolveOff
  /\ AgentStart
  /\ RouteOff
  /\ ParseOff
  /\ ExecutorOff
  /\ parked = NoCall
  /\ written = NoWrites
  /\ previous = NoWrites
  /\ mock = "files"
  /\ env = [OPENAI_API_KEY |-> TRUE, OPENAI_MODEL |-> TRUE, OPENAI_LITE_MODEL |-> FALSE]
  /\ input = FirstInput
  /\ includeSteps = TRUE
  /\ maxIterations = MaxIterBoth
  /\ waiting = [NoInvocation EXCEPT !.pc = "start", !.input = SecondInput,
                                    !.includeSteps = FALSE,
                                    !.maxIterations = MaxIterBoth]

\* The event loop turns to the other invocation: it continues from its
\* await with its own locals and its own runTool call, and this one waits.
OtherAgentRuns ==
  /\ waiting.pc \notin {"off", "done", "failed"}
  /\ waiting' = ThisInvocation
  /\ pc' = waiting.pc
  /\ input' = waiting.input
  /\ includeSteps' = waiting.includeSteps
  /\ maxIterations' = waiting.maxIterations
  /\ iteration' = waiting.iteration
  /\ messages' = waiting.messages
  /\ steps' = waiting.steps
  /\ content' = waiting.content
  /\ action' = waiting.action
  /\ result' = waiting.result
  /\ error' = waiting.error
  /\ modelCalls' = waiting.modelCalls
  /\ toolExecs' = waiting.toolExecs
  /\ execLog' = waiting.execLog
  /\ model' = waiting.model
  /\ heard' = waiting.heard
  /\ tpc' = waiting.call.tpc
  /\ tname' = waiting.call.tname
  /\ targs' = waiting.call.targs
  /\ ttarget' = waiting.call.ttarget
  /\ tret' = waiting.call.tret
  /\ terr' = waiting.call.terr
  /\ tops' = waiting.call.tops
  /\ UNCHANGED <<env, mock, fsVars, resolveVars, writeVars, routeVars, parseVars, parked,
                 executorVars>>

NextBoth ==
  \/ Start
  \/ ModelResponds
  \/ EnsureSandboxDone
  \/ ReaddirDone
  \/ ReadFileDone
  \/ MkdirParentDone
  \/ WriteFileOpened
  \/ WriteFileDone
  \/ ToolSettles
  \/ OtherAgentRuns

SpecBoth == InitBoth /\ [][NextBoth]_vars

----------------------------------------------------------------------------
(* One POST /run-lite request: runLiteRoute.js *)

\* JavaScript truthiness of a body field: undefined, null, "", 0 and false are falsy.
Truthy(v) ==
  /\ v.t \notin {"absent", "null", "zero", "false"}
  /\ v.t = "string" => v.s # <<>>

\* An error body that also carries an output.
ErrorBody_WithOutput(msg) == [error |-> msg, output |-> <<>>]

\* An error body that also carries the steps made so far.
ErrorBody_WithSteps(msg) == [error |-> msg, steps |-> steps]

\* { error: error.message || "Unknown error" } (line 16).

ErrorBody(msg) == [error |-> IF msg # <<>> THEN msg ELSE <<"Unknown error">>]

\* res.status(code).json(body)
Responds(code, body) ==
  /\ hpc' = "responded"
  /\ resStatus' = code
  /\ resBody' = body
  /\ responses' = responses + 1

\* runLite up to its await (lines 5-13): the 400 answer, or the call of
\* runLiteAgent({ input, includeSteps }), which starts with the default cap.
runLite ==
  /\ hpc = "received"
  /\ pc = "off"
  /\ UNCHANGED <<reqBody, env, mock, iteration, messages, steps, content, action, result,
                 error, modelCalls, toolExecs, execLog, model, fsVars, toolVars, resolveVars,
                 heard, writeVars, parseVars, parked, waiting, executorVars>>
  /\ IF ~Truthy(reqBody.input) \/ reqBody.input.t # "string"
       THEN /\ Responds(400, [error |-> <<"input must be a non-empty string.">>])
            /\ UNCHANGED <<pc, input, includeSteps, maxIterations>>
       ELSE /\ pc' = "start"
            /\ input' = reqBody.input
            /\ includeSteps' = (IF reqBody.includeSteps.t = "absent"
                                  THEN FALSE ELSE Truthy(reqBody.includeSteps))
            /\ maxIterations' = MaxIterationsParam({})
            /\ hpc' = "awaitAgent"
            /\ UNCHANGED <<resStatus, resBody, responses>>

\* The awaited runLiteAgent settles: res.json(result), or the catch block
\* (lines 13-17).
runLiteSettles ==
  /\ hpc = "awaitAgent"
  /\ pc \in {"done", "failed"}
  /\ UNCHANGED <<reqBody, fsVars, toolVars, resolveVars, agentVars, writeVars, parseVars, parked, waiting, executorVars>>
  /\ IF pc = "done"
       THEN Responds(200, result)
       ELSE Responds(500, ErrorBody(error))

BodyInputValues ==
  {Str(<<"List files in sandbox-lite, then write a hello.txt">>), Str(<<" ">>), Str(<<>>),
   NonStr("number"), NonStr("zero"), NonStr("null"), Absent}

BodyIncludeStepsValues == {Absent, NonStr("true"), NonStr("false")}

InitRoute ==
  /\ InitFs
  /\ ToolIdle
  /\ ResolveOff
  /\ SingleCall
  /\ ExecutorOff
  /\ ParseOff
  /\ hpc = "received"
  /\ reqBody \in [input : BodyInputValues, includeSteps : BodyIncludeStepsValues]
  /\ resStatus = 0
  /\ resBody = NoResponse
  /\ responses = 0
  /\ pc = "off"
  /\ input = Absent
  /\ includeSteps = FALSE
  /\ maxIterations = 0
  /\ env \in EnvValues
  /\ mock = "few"
  /\ iteration = 0
  /\ messages = <<>>
  /\ steps = <<>>
  /\ content = Undefined
  /\ action = NoAction
  /\ result = NoResult
  /\ error = <<>>
  /\ modelCalls = 0
  /\ toolExecs = 0
  /\ execLog = <<>>
  /\ model = <<>>
  /\ heard = <<>>

NextRoute ==
  \/ runLite
  \/ Start
  \/ ModelResponds
  \/ EnsureSandboxDone
  \/ ReaddirDone
  \/ ToolSettles
  \/ runLiteSettles

SpecRoute == InitRoute /\ [][NextRoute]_vars

----------------------------------------------------------------------------
(* One invocation against a model that always asks for list_files *)

MaxIterLoop == 7

InitLoop ==
  /\ InitFs
  /\ ToolIdle
  /\ ResolveOff
  /\ AgentStart
  /\ SingleCall
  /\ ExecutorOff
  /\ RouteOff
  /\ ParseOff
  /\ mock = "list_files"
  /\ input = Str(<<"List files in sandbox-lite, then write a hello.txt">>)
  /\ includeSteps \in BOOLEAN
  /\ env \in {e \in EnvValues : e.OPENAI_API_KEY /\ (e.OPENAI_MODEL \/ e.OPENAI_LITE_MODEL)}
  /\ \E given \in {{}} \cup {{n} : n \in 0..MaxIterLoop} :
       maxIterations = MaxIterationsParam(given)

NextLoop ==
  \/ Start
  \/ ModelResponds
  \/ EnsureSandboxDone
  \/ ReaddirDone
  \/ ToolSettles

SpecLoop == InitLoop /\ [][NextLoop]_vars

----------------------------------------------------------------------------
(* getExecutor of the /run endpoint: agent.js.  Every request to /run      *)
(* calls it; a call runs from one await to the next.                       *)

\* getExecutor() up to its first await (lines 8-28): the cached executor is
\* returned, or a configuration error thrown, or the prompt is asked for.
getExecutor(c) ==
  /\ gpc[c] \in {"off", "returned", "threw"}
  /\ UNCHANGED <<cachedExecutor, built>>
  /\ IF cachedExecutor # Null
       THEN /\ gpc' = [gpc EXCEPT ![c] = "returned"]
            /\ gret' = [gret EXCEPT ![c] = cachedExecutor]
     ELSE IF ~env.OPENAI_API_KEY \/ ~env.OPENAI_MODEL
       THEN /\ gpc' = [gpc EXCEPT ![c] = "threw"]
            /\ gret' = [gret EXCEPT ![c] = Null]
     ELSE /\ gpc' = [gpc EXCEPT ![c] = "pull"]
          /\ gret' = [gret EXCEPT ![c] = Null]

\* pull("hwchase17/react") settles (line 28): createReactAgent is called, or
\* the rejection leaves getExecutor.
PullDone(c) ==
  /\ gpc[c] = "pull"
  /\ UNCHANGED <<cachedExecutor, gret, built>>
  /\ \E next \in {"createAgent", "threw"} : gpc' = [gpc EXCEPT ![c] = next]

\* createReactAgent settles (lines 29-38): a new AgentExecutor is
\* constructed, assigned to cachedExecutor and returned, or the rejection
\* leaves getExecutor.
CreateAgentDone(c) ==
  /\ gpc[c] = "createAgent"
  /\ \/ /\ built' = built + 1
        /\ cachedExecutor' = built + 1
        /\ gret' = [gret EXCEPT ![c] = built + 1]
        /\ gpc' = [gpc EXCEPT ![c] = "returned"]
     \/ /\ gpc' = [gpc EXCEPT ![c] = "threw"]
        /\ UNCHANGED <<cachedExecutor, gret, built>>

InitExecutor ==
  /\ InitFs
  /\ ToolIdle
  /\ ResolveOff
  /\ RouteOff
  /\ ParseOff
  /\ ExecutorOff
  /\ parked = NoCall
  /\ waiting = NoInvocation
  /\ written = NoWrites
  /\ previous = NoWrites
  /\ pc = "off"
  /\ input = Absent
  /\ includeSteps = FALSE
  /\ maxIterations = 0
  /\ env \in EnvValues
  /\ mock = "any"
  /\ iteration = 0
  /\ messages = <<>>
  /\ steps = <<>>
  /\ content = Undefined
  /\ action = NoAction
  /\ result = NoResult
  /\ error = <<>>
  /\ modelCalls = 0
  /\ toolExecs = 0
  /\ execLog = <<>>
  /\ model = <<>>
  /\ heard = <<>>

ExecutorRest ==
  UNCHANGED <<fsVars, toolVars, resolveVars, agentVars, writeVars, routeVars, parseVars,
              parked, waiting>>

NextExecutor ==
  \/ \E c \in Callers : getExecutor(c) /\ ExecutorRest
  \/ \E c \in Callers : PullDone(c) /\ ExecutorRest
  \/ \E c \in Callers : CreateAgentDone(c) /\ ExecutorRest

SpecExecutor == InitExecutor /\ [][NextExecutor]_vars

----------------------------------------------------------------------------
(* Containment stated on path segments, independently of string prefixes *)

SegmentsOfJoined(base, p) ==
  NormalizeSegments(SplitPath(IF p # <<>> /\ Head(p) = sep THEN p ELSE base \o <<sep>> \o p),
                    <<>>)

IsSegmentPrefix(a, b) == Len(a) <= Len(b) /\ \A i \in 1..Len(a) : b[i] = a[i]

\* The location is the sandbox root or lies below it.
AtOrUnderRoot(segs) == IsSegmentPrefix(SegmentsOfJoined(repoRoot, SANDBOX_DIR), segs)

PathEscapeError(userPath) == <<"Path escapes sandbox: ">> \o userPath

\* C3: resolveSandboxPath fails with the path-escape error exactly when the
\* normalized target is neither the sandbox root nor nested under it; otherwise
\* it returns the normalized target, which is the root or begins with root + separator.
C3_ResolveExactlyConfined ==
  rpc = "applied" =>
    LET segs == SegmentsOfJoined(SANDBOX_DIR, ruserPath)
    IN  /\ rresult.ok <=> AtOrUnderRoot(segs)
        /\ ~rresult.ok => rresult.value = PathEscapeError(ruserPath)
        /\ rresult.ok =>
             /\ rresult.value = AbsolutePath(segs)
             /\ \/ rresult.value = SANDBOX_DIR
                \/ StartsWith(rresult.value, SANDBOX_DIR \o <<sep>>)

\* Both outcomes happen: a path with ".." that stays inside, and one that escapes.
C3_Witness ==
  /\ rpc = "applied"
  /\ ruserPath = <<"a", sep, ".", ".", sep, "a">>
  /\ rresult = Ok(SANDBOX_DIR \o <<sep, "a">>)
  /\ resolveSandboxPath(<<".">>) = Ok(SANDBOX_DIR)
  /\ ~resolveSandboxPath(<<".", ".", sep, "a">>).ok

\* The target names an entry at or below a sibling of the sandbox root whose
\* name is the root's name followed by more characters.
InPrefixNamedSibling(segs) ==
  LET root == SegmentsOfJoined(repoRoot, SANDBOX_DIR)
      n == Len(root)
  IN  /\ Len(segs) >= n
      /\ \A i \in 1..(n - 1) : segs[i] = root[i]
      /\ segs[n] # root[n]
      /\ StartsWith(segs[n], root[n])

\* C4: every target in a sibling directory whose name merely begins with the
\* sandbox root's name is rejected with the path-escape error.
C4_SiblingPrefixRejected ==
  (rpc = "applied" /\ InPrefixNamedSibling(SegmentsOfJoined(SANDBOX_DIR, ruserPath)))
    => rresult = Err(PathEscapeError(ruserPath))

C4_Witness ==
  /\ rpc = "applied"
  /\ ruserPath = <<sep, "sandbox-lite", "2", sep, "a">>
  /\ InPrefixNamedSibling(SegmentsOfJoined(SANDBOX_DIR, ruserPath))
  /\ ~rresult.ok

\* C2: every file read or written by runTool lies at or under the sandbox root,
\* and the entries outside the sandbox root are those of the initial filesystem.
C2_ToolsConfined ==
  /\ \A i \in DOMAIN tops :
       tops[i].op \in {"readFile", "writeFile", "readdir"}
         => AtOrUnderRoot(SegmentsOfJoined(repoRoot, tops[i].path))
  /\ {d \in dirs : ~AtOrUnderRoot(SegmentsOfJoined(repoRoot, d))} = OutsideDirs0
  /\ \A q \in DOMAIN files :
       ~AtOrUnderRoot(SegmentsOfJoined(repoRoot, q))
         => q \in DOMAIN OutsideFiles0 /\ files[q] = OutsideFiles0[q]
  /\ \A q \in DOMAIN OutsideFiles0 : q \in DOMAIN files

\* A write inside the sandbox succeeded earlier and a write aimed at the
\* sibling directory has just been refused.
C2_Witness ==
  /\ tpc = "threw"
  /\ tname = <<"write_file">>
  /\ targs.filePath.s = <<".", ".", sep, "sandbox-lite", "2", sep, "a">>
  /\ terr = PathEscapeError(targs.filePath.s)
  /\ SandboxFile \in DOMAIN files
  /\ files[SandboxFile] = <<"hi">>

----------------------------------------------------------------------------
(* Claims about the agent loop *)

MaxIterationsError == <<"Exceeded max iterations.">>

\* Position within an invocation: seven stages per loop iteration, then the end.
Stage ==
  CASE pc = "start" -> 0
    [] pc = "awaitModel" -> 1
    [] pc = "awaitTool" /\ tpc = "ensureSandbox" -> 2
    [] pc = "awaitTool" /\ tpc \in {"readdir", "readFile", "mkdirParent"} -> 3
    [] pc = "awaitTool" /\ tpc = "writeFile" -> 4
    [] pc = "awaitTool" /\ tpc = "writeData" -> 5
    [] pc = "awaitTool" /\ tpc \in {"returned", "threw"} -> 6
    [] OTHER -> 0

Rank == IF Terminated THEN 7 * maxIterations + 1 ELSE 7 * iteration + Stage

\* Some step of the invocation is waiting to happen.
InProgress ==
  \/ pc \in {"start", "awaitModel"}
  \/ pc = "awaitTool" /\ tpc \in {"ensureSandbox", "readdir", "readFile", "mkdirParent",
                                   "writeFile", "writeData", "returned", "threw"}

\* C1: an invocation makes at most maxIterations model calls; every step moves
\* it strictly forward through at most 7 * maxIterations + 1 positions, and it
\* is either in progress or has ended in Done or in a failure.
C1_TerminatesWithinCap ==
  /\ [](modelCalls <= maxIterations)
  /\ [](Rank <= 7 * maxIterations + 1)
  /\ [](Terminated \/ InProgress)
  /\ [][Rank' > Rank]_vars

\* The cap itself ends an invocation after maxIterations model calls.
C1_Witness ==
  /\ pc = "failed"
  /\ error = MaxIterationsError
  /\ maxIterations = MaxIter
  /\ modelCalls = maxIterations

\* The action the last assistant message parses to.
LastAssistantAction == parseModelOutput(messages[Len(messages)].content).action

\* C5: when the parsed action is a final action the invocation is Done, its
\* output is that action's content, and nothing further can happen.
C5_FinalEndsInDone ==
  action.type = Str(<<"final">>) =>
    /\ pc = "done"
    /\ result.output = action.content.s
    /\ action = parseModelOutput(content).action
    /\ tpc = "idle"
    /\ ~ENABLED Next

\* A final action after one tool execution.
C5_Witness ==
  /\ pc = "done"
  /\ action.type = Str(<<"final">>)
  /\ result.output = <<"Done.">>
  /\ modelCalls = 2
  /\ toolExecs = 1

\* The steps of the tool executions that returned, in order.
ExecutedToolSteps ==
  [i \in 1..Len(execLog) |->
     [type |-> "tool", name |-> execLog[i].name, args |-> execLog[i].args,
      result |-> execLog[i].result]]

\* C6: a Done invocation with step tracing returns the executed tool actions in
\* order, each as {type, name, args, result}, followed by one final step.
C6_StepsAreExecutedToolsThenFinal ==
  (pc = "done" /\ includeSteps) =>
    /\ "steps" \in DOMAIN result
    /\ result.steps =
         ExecutedToolSteps \o << [type |-> "final", content |-> LastAssistantAction.content.s] >>
    /\ Len(result.steps) = toolExecs + 1

\* list_files, then write_file, then the final answer: a three-entry trace.
C6_Witness ==
  /\ pc = "done"
  /\ includeSteps
  /\ Len(result.steps) = 3
  /\ result.steps[1].name = <<"list_files">>
  /\ result.steps[2].name = <<"write_file">>
  /\ result.steps[3] = [type |-> "final", content |-> <<"Done.">>]
  /\ files[SandboxFile] = <<"hi">>

\* C7: a successful result has a steps field exactly when step tracing was
\* requested; output is present either way and is the final action's content.
C7_StepsIffRequested ==
  pc = "done" =>
    /\ ("steps" \in DOMAIN result) <=> includeSteps
    /\ "output" \in DOMAIN result
    /\ result.output = LastAssistantAction.content.s

C7_Witness ==
  /\ pc = "done"
  /\ ~includeSteps
  /\ DOMAIN result = {"output"}
  /\ Len(steps) = 2

\* C8: against a model that always asks for list_files the invocation fails
\* with the max-iterations error after exactly maxIterations model calls and
\* exactly maxIterations tool executions.
C8_ListLoopHitsCapExactly ==
  /\ pc # "done"
  /\ pc = "failed" =>
       /\ error = MaxIterationsError
       /\ modelCalls = maxIterations
       /\ toolExecs = maxIterations
       /\ Len(execLog) = maxIterations
  /\ pc # "failed" => modelCalls <= maxIterations /\ toolExecs <= modelCalls

\* The default cap of six.
C8_Witness ==
  /\ mock = "list_files"
  /\ pc = "failed"
  /\ maxIterations = DEFAULT_MAX_ITERATIONS
  /\ modelCalls = DEFAULT_MAX_ITERATIONS
  /\ toolExecs = DEFAULT_MAX_ITERATIONS

MalformedOutputErrors ==
  { <<"Invalid model output format (expected JSON).">>,
    <<"Invalid model output format (expected JSON object).">>,
    <<"Invalid model output format (unknown type).">>,
    <<"Tool call missing name.">>,
    <<"Final response missing content.">> }

\* C9: when a model response fails to parse the invocation has failed with the
\* parser's error, no tool ran in that iteration and nothing further can happen.
C9_ParseFailureIsFatal ==
  (content # Undefined /\ ~parseModelOutput(content).ok) =>
    /\ pc = "failed"
    /\ error = parseModelOutput(content).msg
    /\ error \in MalformedOutputErrors
    /\ modelCalls = iteration + 1
    /\ toolExecs = iteration
    /\ Len(execLog) = iteration
    /\ tpc = "idle"
    /\ ~ENABLED Next

\* Plain prose on the first turn: one model call, no tool execution.
C9_Witness ==
  /\ pc = "failed"
  /\ content = <<"I will list the files.">>
  /\ error = <<"Invalid model output format (expected JSON).">>
  /\ modelCalls = 1
  /\ toolExecs = 0

\* C10: when a tool execution fails the invocation has failed with the tool's
\* error; no step and no observation was appended for it, the tool was not
\* run again and nothing further can happen.
C10_ToolFailureIsFatal ==
  (pc # "awaitTool" /\ terr # <<>>) =>
    /\ pc = "failed"
    /\ error = terr
    /\ Len(steps) = iteration
    /\ Len(execLog) = iteration
    /\ Len(messages) = 2 + 2 * iteration + 1
    /\ messages[Len(messages)] = Message("assistant", content)
    /\ modelCalls = iteration + 1
    /\ toolExecs = iteration + 1
    /\ tpc = "idle"
    /\ ~ENABLED Next

\* A path escape after one successful tool execution.
C10_Witness ==
  /\ pc = "failed"
  /\ iteration = 1
  /\ tname = <<"write_file">>
  /\ error = PathEscapeError(targs.filePath.s)
  /\ Len(steps) = 1

----------------------------------------------------------------------------
(* Claims about the tool executor *)

UnknownToolError(name) == <<"Unknown tool: ">> \o name

\* C14: a call with a name outside the registered set fails with the
\* unknown-tool error whatever its arguments are, performs no filesystem
\* operation, and the step that makes the call leaves the filesystem as it was.
C14_UnknownToolBeforeSideEffects ==
  /\ []((tpc # "idle" /\ tname \notin {<<"list_files">>, <<"read_file">>, <<"write_file">>})
          => /\ tpc = "threw"
             /\ terr = UnknownToolError(tname)
             /\ tops = <<>>)
  /\ [][tname' \notin {<<"list_files">>, <<"read_file">>, <<"write_file">>}
          => (dirs' = dirs /\ files' = files)]_vars

\* An unknown tool called with null arguments before the sandbox exists.
C14_Witness ==
  /\ tpc = "threw"
  /\ tname = <<"delete_file">>
  /\ targs = ArgsOf("null")
  /\ terr = <<"Unknown tool: ", "delete_file">>
  /\ SANDBOX_DIR \notin dirs

\* A non-empty string, stated on the characters.
NonBlankString(v) == v.t = "string" /\ \E i \in DOMAIN v.s : v.s[i] \notin {" ", "\n"}

\* The arguments the tool definitions allow, stated independently of validateArgs.
ArgsAcceptable(name, args) ==
  /\ args.t = "object"
  /\ name = <<"list_files">> =>
       args.filePath.t = "absent" /\ args.content.t = "absent" /\ ~args.extra
  /\ name \in {<<"read_file">>, <<"write_file">>} => NonBlankString(args.filePath)
  /\ name = <<"write_file">> => NonBlankString(args.content)

InvalidArgsErrors ==
  { <<"args must be an object.">>, <<"list_files does not accept arguments.">>,
    <<"filePath", " must be a non-empty string.">>,
    <<"content", " must be a non-empty string.">> }

\* C15: a call whose arguments are not acceptable has thrown an invalid-arguments
\* error without any filesystem operation; the first filesystem operation of a
\* call is ensureSandbox's mkdir of the sandbox root, so every readdir, readFile
\* and writeFile comes after it and finds the root in place; a step that ends
\* in a rejection without operations leaves the filesystem as it was.
C15_ValidationBeforeFilesystem ==
  /\ []((tpc # "idle" /\ tname \in TOOL_NAMES /\ ~ArgsAcceptable(tname, targs))
          => /\ tpc = "threw"
             /\ terr \in InvalidArgsErrors
             /\ tops = <<>>)
  /\ [](tops # <<>> => tops[1] = FsOp("mkdir", SANDBOX_DIR))
  /\ [](\A i \in DOMAIN tops :
          tops[i].op \in {"readdir", "readFile", "writeFile"}
            => i > 1 /\ SANDBOX_DIR \in dirs)
  /\ [](tpc \in {"readdir", "readFile", "mkdirParent", "writeFile", "writeData"}
          => tops # <<>> /\ SANDBOX_DIR \in dirs)
  /\ [][(tpc' = "threw" /\ tops' = <<>>) => (dirs' = dirs /\ files' = files)]_vars

\* write_file without content, rejected before the sandbox was ever created.
C15_Witness ==
  /\ tpc = "threw"
  /\ tname = <<"write_file">>
  /\ targs = ArgsObject(Str(<<"a">>), Absent, FALSE)
  /\ terr = <<"content", " must be a non-empty string.">>
  /\ tops = <<>>
  /\ SANDBOX_DIR \notin dirs

----------------------------------------------------------------------------
(* Claims about the start of an invocation *)

InvalidInputError == <<"input must be a non-empty string.">>
MissingKeyError == <<"Missing OPENAI_API_KEY in environment.">>
MissingModelError == <<"Missing OPENAI_MODEL in environment.">>

\* C18: an invocation whose input is missing, not a string, empty or blank
\* fails with the invalid-input error whatever the configuration is; it makes
\* no model call, runs no tool, builds no message, reads no configuration and
\* no step of it changes the filesystem.
C18_InvalidInputFailsFirst ==
  /\ [](~NonBlankString(input)
          => /\ pc \in {"start", "failed"}
             /\ pc = "failed" => error = InvalidInputError
             /\ modelCalls = 0
             /\ toolExecs = 0
             /\ iteration = 0
             /\ messages = <<>>
             /\ model = <<>>
             /\ tpc = "idle"
             /\ tops = <<>>)
  /\ []((pc = "failed" /\ error = InvalidInputError) => ~NonBlankString(input))
  /\ [][~NonBlankString(input) => (dirs' = dirs /\ files' = files)]_vars

\* A blank input with no API key configured: the input error wins.
C18_Witness ==
  /\ pc = "failed"
  /\ input = Str(<<" ">>)
  /\ ~env.OPENAI_API_KEY
  /\ error = InvalidInputError
  /\ modelCalls = 0

\* C19: with a valid input, a missing API key or a missing model identifier
\* fails the invocation at its start, before any model call; the missing-model
\* error arises only when both model variables are unset, and every model
\* call is made with the lite override when it is set and with the default
\* model variable otherwise.
C19_ConfigurationFailsFast ==
  /\ (NonBlankString(input) /\ pc # "start" /\ ~env.OPENAI_API_KEY)
       => (pc = "failed" /\ error = MissingKeyError /\ modelCalls = 0)
  /\ (NonBlankString(input) /\ pc # "start" /\ env.OPENAI_API_KEY
        /\ ~env.OPENAI_LITE_MODEL /\ ~env.OPENAI_MODEL)
       => (pc = "failed" /\ error = MissingModelError /\ modelCalls = 0)
  /\ error = MissingModelError
       => (~env.OPENAI_LITE_MODEL /\ ~env.OPENAI_MODEL /\ modelCalls = 0)
  /\ error = MissingKeyError => (~env.OPENAI_API_KEY /\ modelCalls = 0)
  /\ modelCalls > 0
       => /\ env.OPENAI_API_KEY
          /\ env.OPENAI_LITE_MODEL \/ env.OPENAI_MODEL
          /\ model = IF env.OPENAI_LITE_MODEL
                        THEN <<"$OPENAI_LITE_MODEL">> ELSE <<"$OPENAI_MODEL">>

\* An API key but neither model variable: the invocation failed at its start.
C19_Witness ==
  /\ pc = "failed"
  /\ error = MissingModelError
  /\ env.OPENAI_API_KEY
  /\ ~env.OPENAI_LITE_MODEL
  /\ ~env.OPENAI_MODEL
  /\ modelCalls = 0

----------------------------------------------------------------------------
(* Claims about the parser *)

\* The text is one JSON document, whitespace around it allowed.
IsJsonText(text) ==
  \E tok \in DocTokens : \E i \in DOMAIN text :
    /\ text[i] = tok
    /\ \A j \in DOMAIN text : j # i => text[j] \in {" ", "\n"}

JsonValueOf(text) == DocValue(CHOOSE tok \in DocTokens : \E i \in DOMAIN text : text[i] = tok)

RecognizedType(v) == v.type.t = "string" /\ v.type.s \in {<<"tool">>, <<"final">>}

\* C16: a text that after normalisation is not JSON, is JSON but no object, or
\* is an object whose type is not exactly tool or final, is rejected with the
\* malformed-output message of that case, and no action comes out.
C16_MalformedOutputRejected ==
  ppc = "applied" =>
    LET text == normalizeModelOutput(praw)
    IN  /\ ~IsJsonText(text)
             => pout = [ok |-> FALSE, action |-> NoAction,
                        msg |-> <<"Invalid model output format (expected JSON).">>]
        /\ (IsJsonText(text) /\ JsonValueOf(text).kind # "object")
             => pout = [ok |-> FALSE, action |-> NoAction,
                        msg |-> <<"Invalid model output format (expected JSON object).">>]
        /\ (IsJsonText(text) /\ JsonValueOf(text).kind = "object"
              /\ ~RecognizedType(JsonValueOf(text)))
             => pout = [ok |-> FALSE, action |-> NoAction,
                        msg |-> <<"Invalid model output format (unknown type).">>]

\* An object with a content but the type answer, fenced: rejected.
C16_Witness ==
  /\ ppc = "applied"
  /\ praw = <<Fence, "\n", "{type:answer,content:Done.}", "\n", Fence>>
  /\ ~pout.ok
  /\ pout.msg = <<"Invalid model output format (unknown type).">>

\* Tool calls with a non-empty string name and given args, and final answers
\* with a string content.
WellFormedDocs ==
  {tok \in DocTokens :
     LET v == DocValue(tok)
     IN  /\ v.kind = "object"
         /\ \/ /\ v.type = Str(<<"tool">>)
               /\ NonBlankString(v.name)
               /\ v.args.t \notin {"absent", "null"}
            \/ /\ v.type = Str(<<"final">>)
               /\ v.content.t = "string"}

\* Bare, or inside one pair of fence markers, the opening one plain or tagged json.
PairWrappers ==
  {"bare", "padded", "fenced", "fenced-inline", "fenced-padded", "fenced-json", "fenced-JSON"}

----------------------------------------------------------------------------
(* Claims about list_files *)

EmptyMarker == <<"(empty)">>

\* The names of the entries directly in the sandbox root.
RootEntries == Entries(SANDBOX_DIR, dirs, files)

ListFilesReturned == tpc = "returned" /\ tname = <<"list_files">>

\* C13 as amended: list_files with no arguments never fails; it creates the
\* sandbox root when it is missing; it returns the marker when the root has no
\* entries, and otherwise only when the root's single entry is itself named
\* like the marker; it never returns the empty string.
C13_EmptyMarkerForEmptyRoot ==
  /\ []((tname = <<"list_files">> /\ targs = EmptyObject) => tpc # "threw")
  /\ [](ListFilesReturned =>
          /\ RootEntries = {} => tret = EmptyMarker
          /\ tret = EmptyMarker => (RootEntries = {} \/ RootEntries = {EmptyMarker})
          /\ tret # <<>>
          /\ SANDBOX_DIR \in dirs)
  /\ [][(tname = <<"list_files">> /\ tpc = "ensureSandbox" /\ SANDBOX_DIR \notin dirs)
          => (tpc' = "readdir" /\ SANDBOX_DIR \in dirs' /\ Entries(SANDBOX_DIR, dirs', files') = {})]_vars

\* The marker for a sandbox root that this very call created.
C13_Witness ==
  /\ ListFilesReturned
  /\ tret = EmptyMarker
  /\ tops = <<FsOp("mkdir", SANDBOX_DIR), FsOp("readdir", SANDBOX_DIR)>>
  /\ RootEntries = {}
  /\ written = NoWrites
  /\ previous = NoWrites
  /\ dirs = OutsideDirs0 \cup {SANDBOX_DIR}

\* C13 as stated: the marker is returned exactly when the root has no entries.
C13_MarkerExactlyWhenEmpty ==
  ListFilesReturned => (tret = EmptyMarker <=> RootEntries = {})

----------------------------------------------------------------------------
(* Claims about write_file followed by read_file *)

\* Some call has handed a write of path q to the filesystem and awaits it.
WriteInFlight(q) ==
  \/ tpc \in {"writeFile", "writeData"} /\ ttarget = q
  \/ parked.tpc \in {"writeFile", "writeData"} /\ parked.ttarget = q

\* C12: while no write to its resolved path is in flight, a file holds the
\* content of the last write_file that succeeded on that path, whatever calls
\* either invocation made on other paths since, and a read_file of the path
\* returns exactly that content.
C12_ReadReturnsLastWrite ==
  /\ [](\A q \in DOMAIN written :
          ~WriteInFlight(q) => (q \in DOMAIN files /\ files[q] = written[q]))
  /\ [][(tpc = "readFile" /\ tpc' # "readFile" /\ parked' = parked
           /\ ttarget \in DOMAIN written /\ ~WriteInFlight(ttarget))
          => (tpc' = "returned" /\ tret' = written[ttarget])]_vars

\* read_file("a") returned what write_file("./a") wrote, after the other
\* invocation wrote something else to d/a.
C12_Witness ==
  /\ tpc = "returned"
  /\ tname = <<"read_file">>
  /\ targs.filePath.s = <<"a">>
  /\ tret = <<"yo", "!">>
  /\ written = (SandboxFile :> <<"yo", "!">>) @@ ((SandboxSubdir \o <<sep, "a">>) :> <<"hi">>)
  /\ parked.tpc = "returned"
  /\ parked.tname = <<"write_file">>
  /\ parked.targs = ArgsObject(Str(<<"d", sep, "a">>), Str(<<"hi">>), FALSE)

----------------------------------------------------------------------------
(* Claims about the /run-lite route *)

\* C11: a request whose invocation failed is answered once, with status 500
\* and a body holding the error message and nothing else; the invocation
\* resolved with no value, whatever steps it had accumulated.
C11_FailureReturnsOnlyError ==
  (hpc = "responded" /\ pc = "failed") =>
    /\ resStatus = 500
    /\ DOMAIN resBody = {"error"}
    /\ resBody.error = error
    /\ error # <<>>
    /\ result = NoResult
    /\ responses = 1

\* Two listings succeeded, then a write escaped the sandbox.
C11_Witness ==
  /\ hpc = "responded"
  /\ pc = "failed"
  /\ Len(steps) = 2
  /\ Len(execLog) = 2
  /\ includeSteps
  /\ resBody = [error |-> <<"Path escapes sandbox: ", ".", ".", sep, "sandbox-lite", "2", sep, "a">>]

\* C20: a request whose input is missing, not a string, empty or blank is
\* answered with 400, and 500 answers only requests whose input is valid.
C20_InvalidInputAnswered400 ==
  hpc = "responded" =>
    /\ ~NonBlankString(reqBody.input) => resStatus = 400
    /\ resStatus = 500 => NonBlankString(reqBody.input)

----------------------------------------------------------------------------
(* Claims about the message sequence *)

\* The text of the current iteration failed to parse.
ParseFailed == content # Undefined /\ ~parseModelOutput(content).ok

\* C22 as amended: the raw assistant text is appended to the message sequence
\* once it has parsed; when parsing fails the sequence is as the iteration
\* found it, ending with a user message, and holds the offending text nowhere.
C22_AssistantTextAppendedAfterParse ==
  /\ ParseFailed =>
       /\ Len(messages) = 2 + 2 * iteration
       /\ messages[Len(messages)].role = "user"
       /\ \A i \in DOMAIN messages : messages[i] # Message("assistant", content)
  /\ (pc \in {"awaitTool", "done"} /\ content # Undefined)
       => /\ parseModelOutput(content).ok
          /\ Len(messages) = 2 + 2 * iteration + 1
          /\ messages[Len(messages)] = Message("assistant", content)

\* Prose in the second iteration: the sequence ends with the first observation.
C22_Witness ==
  /\ pc = "failed"
  /\ iteration = 1
  /\ content = <<"I will list the files.">>
  /\ Len(messages) = 4
  /\ messages[3].role = "assistant"
  /\ messages[4].role = "user"

\* C22 as stated: when parsing fails the last message is the assistant message
\* holding the offending text.
C22_OffendingTextIsLastMessage ==
  ParseFailed => messages[Len(messages)] = Message("assistant", content)

----------------------------------------------------------------------------
(* Claims about fence stripping *)

\* The documents that parse to an action when given bare.
ActionDocs == {tok \in DocTokens : parseModelOutput(<<tok>>).ok}

NotJsonError ==
  [ok |-> FALSE, action |-> NoAction,
   msg |-> <<"Invalid model output format (expected JSON).">>]

\* C23 as amended: an action inside a pair of fences whose opening fence has
\* no tag or the tag json, in any case, parses to the same action as the bare
\* JSON; with any other tag, one beginning with json included, the text is
\* rejected as not JSON; an opening fence is stripped also when no closing
\* fence follows, and a closing fence alone is not stripped.
C23_FenceTagJsonOnly ==
  ppc = "applied" =>
    \A tok \in ActionDocs :
      /\ \A w \in {"fenced", "fenced-inline", "fenced-padded", "fenced-json", "fenced-JSON"} :
           praw = Wrap(w, <<tok>>)
             => (pout.ok /\ pout.action = parseModelOutput(<<tok>>).action
                  /\ pout.action.type = DocValue(tok).type)
      /\ \A w \in {"fenced-js", "fenced-jsonc", "fence-trailing"} :
           praw = Wrap(w, <<tok>>) => pout = NotJsonError
      /\ praw = Wrap("fence-unclosed", <<tok>>)
           => (pout.ok /\ pout.action = parseModelOutput(<<tok>>).action)

\* A final answer in a block tagged js: rejected.
C23_Witness ==
  /\ ppc = "applied"
  /\ praw = <<Fence, "js", "\n", "{type:final,content:Done.}", "\n", Fence>>
  /\ pout = NotJsonError

\* C23 as stated: whatever the tag of the opening fence, a fenced action parses
\* to the same action as the bare JSON, and a text with an opening fence but
\* no closing fence is not unwrapped.
C23_AnyFenceTagAccepted ==
  ppc = "applied" =>
    \A tok \in ActionDocs :
      /\ \A w \in {"fenced", "fenced-json", "fenced-js", "fenced-jsonc"} :
           praw = Wrap(w, <<tok>>)
             => (pout.ok /\ pout.action = parseModelOutput(<<tok>>).action)
      /\ praw = Wrap("fence-unclosed", <<tok>>) => ~pout.ok

----------------------------------------------------------------------------
(* Claims about the arguments of a tool action *)

\* C24: the value given to runTool is exactly the parsed args, absent or null
\* having become the empty object; parsed args that are no JSON object are
\* rejected with the invalid-arguments error before any filesystem operation,
\* and every recorded tool step carries the args the tool was called with.
C24_ArgsPassedThrough ==
  /\ pc = "awaitTool" => targs = action.args
  /\ (action.type = Str(<<"tool">>) /\ action.args.t # "object")
       => /\ pc \in {"awaitTool", "failed"}
          /\ tpc \in {"threw", "idle"}
          /\ terr = <<"args must be an object.">>
          /\ tops = <<>>
  /\ \A i \in DOMAIN steps :
       steps[i].type = "tool" => steps[i].args.t = "object"

----------------------------------------------------------------------------
(* Claims about the iteration cap *)

\* The invocation passed the checks made before the loop.
LoopEntered ==
  /\ NonBlankString(input)
  /\ env.OPENAI_API_KEY
  /\ env.OPENAI_LITE_MODEL \/ env.OPENAI_MODEL

\* Each of the first maxIterations model responses parsed to a tool action
\* whose execution returned.
AllIterationsRanTools ==
  /\ modelCalls = maxIterations
  /\ Len(execLog) = maxIterations
  /\ Len(messages) = 2 + 2 * maxIterations
  /\ \A k \in 1..maxIterations :
       /\ messages[2 * k + 1].role = "assistant"
       /\ parseModelOutput(messages[2 * k + 1].content).ok
       /\ parseModelOutput(messages[2 * k + 1].content).action.type = Str(<<"tool">>)
       /\ messages[2 * k + 2] =
            Message("user", Observation(execLog[k].name, execLog[k].result))

\* C25: an invocation that entered the loop has failed with the
\* max-iterations error exactly when every one of its maxIterations model
\* responses was a tool action that executed successfully; a final action in
\* answer to the last allowed model call ends it in Done.
C25_CapErrorIffAllToolIterations ==
  /\ (Terminated /\ LoopEntered)
       => ((pc = "failed" /\ error = MaxIterationsError) <=> AllIterationsRanTools)
  /\ error = MaxIterationsError => (pc = "failed" /\ LoopEntered)
  /\ (action.type = Str(<<"final">>) /\ modelCalls = maxIterations)
       => (pc = "done" /\ error = <<>> /\ Len(execLog) = maxIterations - 1)

\* The last allowed model call is answered with a final action.
C25_Witness ==
  /\ pc = "done"
  /\ maxIterations = MaxIter
  /\ modelCalls = MaxIter
  /\ Len(execLog) = MaxIter - 1
  /\ action.type = Str(<<"final">>)

----------------------------------------------------------------------------
(* Claims about one successful tool iteration *)

\* The step in which the awaited runTool call is found to have returned.
ToolReturnObserved == pc = "awaitTool" /\ tpc = "returned" /\ tpc' = "idle"

\* C26: the step that takes up a returned tool call appends exactly one tool
\* step with the name, the args the tool was called with and the result,
\* appends exactly one user message serialising the observation, raises the
\* iteration count by one and goes on with the loop: to the next model call,
\* or, when the cap is reached, to the max-iterations error.
C26_SuccessfulToolIteration ==
  [][ToolReturnObserved =>
       /\ steps' = Append(steps, [type |-> "tool", name |-> action.name.s,
                                   args |-> targs, result |-> tret])
       /\ messages' = Append(messages,
                             [role |-> "user",
                              content |-> <<"{type:observation,name:">> \o action.name.s
                                          \o <<",result:">> \o tret \o <<"}">>])
       /\ iteration' = iteration + 1
       /\ result' = result
       /\ IF iteration + 1 < maxIterations
            THEN pc' = "awaitModel" /\ error' = <<>> /\ modelCalls' = modelCalls + 1
            ELSE pc' = "failed" /\ error' = MaxIterationsError /\ modelCalls' = modelCalls]_vars

\* After a successful write_file the invocation waits for the next model call.
C26_Witness ==
  /\ pc = "awaitModel"
  /\ iteration = 1
  /\ steps = << [type |-> "tool", name |-> <<"write_file">>,
                  args |-> ArgsObject(Str(<<"a">>), Str(<<"hi">>), FALSE),
                  result |-> <<"Wrote ", "a">>] >>
  /\ Len(messages) = 4
  /\ messages[4].role = "user"

IsPrefixOf(a, b) == Len(a) <= Len(b) /\ \A i \in DOMAIN a : b[i] = a[i]

\* C27: the message sequence only grows at its end; once seeded it begins with
\* the system prompt and the user's input, and after k successful tool
\* iterations these two are followed by k pairs of the assistant's tool action
\* and the observation of its result, and by at most the assistant text of the
\* iteration under way.
C27_MessagesAppendOnly ==
  /\ [][IsPrefixOf(messages, messages')]_vars
  /\ [](messages # <<>> =>
          /\ messages[1].role = "system"
          /\ messages[1].content = buildSystemPrompt(TOOL_DEFINITIONS)
          /\ messages[2] = [role |-> "user", content |-> input.s]
          /\ Len(messages) \in {2 + 2 * Len(execLog), 2 + 2 * Len(execLog) + 1}
          /\ pc = "awaitModel" => Len(messages) = 2 + 2 * iteration
          /\ iteration \in {Len(execLog), Len(execLog) + 1}
          /\ \A k \in 1..Len(execLog) :
               /\ messages[2 * k + 1].role = "assistant"
               /\ parseModelOutput(messages[2 * k + 1].content).action.name.s = execLog[k].name
               /\ messages[2 * k + 2].role = "user"
               /\ messages[2 * k + 2].content =
                    <<"{type:observation,name:">> \o execLog[k].name
                    \o <<",result:">> \o execLog[k].result \o <<"}">>)

\* Two successful tool iterations: the seed and two pairs.
C27_Witness ==
  /\ pc = "awaitModel"
  /\ iteration = 2
  /\ Len(execLog) = 2
  /\ Len(messages) = 6
  /\ messages[3].role = "assistant"
  /\ messages[6].role = "user"

----------------------------------------------------------------------------
(* Claims about final actions *)

\* C28: a model text that is a final action with a string content, the empty
\* string included, ends the invocation in Done with that content as output;
\* a final action whose content is missing or no string fails the invocation
\* with the missing-content error and no result.
C28_EmptyFinalContentAccepted ==
  (content # Undefined /\ IsJsonText(content)
     /\ JsonValueOf(content).type = Str(<<"final">>))
    => IF JsonValueOf(content).content.t = "string"
         THEN /\ pc = "done"
              /\ action.type = Str(<<"final">>)
              /\ action.content = JsonValueOf(content).content
              /\ result.output = JsonValueOf(content).content.s
              /\ error = <<>>
         ELSE /\ pc = "failed"
              /\ error = <<"Final response missing content.">>
              /\ result = NoResult

\* The empty answer after one tool execution.
C28_Witness ==
  /\ pc = "done"
  /\ content = <<"{type:final,content:}">>
  /\ result.output = <<>>
  /\ Len(execLog) = 1

----------------------------------------------------------------------------
(* Claims about the parser's error messages *)

NotJsonMessage == <<"Invalid model output format (expected JSON).">>
NotObjectMessage == <<"Invalid model output format (expected JSON object).">>
UnknownTypeMessage == <<"Invalid model output format (unknown type).">>

\* The message of the first check a text fails, in the order JSON decoding,
\* object, type, field; <<>> for a text that passes all four.
FirstFailingCheck(raw) ==
  LET text == normalizeModelOutput(raw)
  IN  IF ~IsJsonText(text) THEN NotJsonMessage
      ELSE IF JsonValueOf(text).kind # "object" THEN NotObjectMessage
      ELSE IF ~RecognizedType(JsonValueOf(text)) THEN UnknownTypeMessage
      ELSE IF JsonValueOf(text).type.s = <<"tool">> /\ ~NonBlankString(JsonValueOf(text).name)
        THEN <<"Tool call missing name.">>
      ELSE IF JsonValueOf(text).type.s = <<"final">> /\ JsonValueOf(text).content.t # "string"
        THEN <<"Final response missing content.">>
      ELSE <<>>

\* C29: a model text is rejected exactly when it fails one of the four checks
\* and the error is the message of the first check it fails; the messages for
\* not-JSON, not-an-object and unknown-type are three different texts; and
\* whatever the message, the invocation reacts the same way: it has failed with
\* that message, without result and without running a tool in that iteration.
C29_FirstFailingCheckReported ==
  /\ Cardinality({NotJsonMessage, NotObjectMessage, UnknownTypeMessage}) = 3
  /\ content # Undefined => (ParseFailed <=> FirstFailingCheck(content) # <<>>)
  /\ ParseFailed =>
       /\ pc = "failed"
       /\ error = FirstFailingCheck(content)
       /\ result = NoResult
       /\ toolExecs = iteration
       /\ tpc = "idle"

\* An array fails the object check and would fail the type check: it gets the
\* object message.
C29_Witness ==
  /\ pc = "failed"
  /\ content = <<"[]">>
  /\ error = NotObjectMessage
  /\ iteration = 1

----------------------------------------------------------------------------
(* Claims about model failures *)

ModelErrors == {<<"API error">>, <<"Empty model response.">>}

\* C30: a request that fails, a response without completion and an empty
\* completion each make callModel throw; an invocation that has failed with a
\* model error made no model call after the failing one, appended no
\* assistant message for it and ran no tool in that iteration; the failing
\* step changes neither messages nor steps, and a failed invocation makes no
\* further model or tool call.
C30_ModelFailureIsFatal ==
  /\ [](\A r \in {ApiFailure, NoChoice, Completion(<<>>)} :
          ~callModel(r).ok /\ callModel(r).value \in ModelErrors)
  /\ [](error \in ModelErrors =>
          /\ pc = "failed"
          /\ result = NoResult
          /\ modelCalls = iteration + 1
          /\ toolExecs = iteration
          /\ Len(execLog) = iteration
          /\ Len(steps) = iteration
          /\ Len(messages) = 2 + 2 * iteration
          /\ messages[Len(messages)].role = "user"
          /\ tpc = "idle")
  /\ [][(pc = "awaitModel" /\ pc' = "failed" /\ content' = content)
          => /\ error' \in ModelErrors
             /\ messages' = messages
             /\ steps' = steps
             /\ modelCalls' = modelCalls
             /\ toolExecs' = toolExecs
             /\ toolVars' = toolVars]_vars
  /\ [][pc = "failed" => (modelCalls' = modelCalls /\ toolExecs' = toolExecs)]_vars

\* An empty response to the second model call.
C30_Witness ==
  /\ pc = "failed"
  /\ error = <<"Empty model response.">>
  /\ iteration = 1
  /\ modelCalls = 2
  /\ toolExecs = 1
  /\ Len(messages) = 4

----------------------------------------------------------------------------
(* Claims about concurrent invocations *)

\* What an invocation's messages, steps and current action are after one
\* more thing it was given: a completion, or the result of the tool it asked for.
ReplayStep(st, e) ==
  IF e.from = "model"
    THEN LET p == parseModelOutput(e.text)
         IN  IF ~p.ok THEN st
             ELSE [messages |-> Append(st.messages,
                                       [role |-> "assistant", content |-> e.text]),
                   steps |-> IF p.action.type = Str(<<"final">>)
                               THEN Append(st.steps, [type |-> "final",
                                                      content |-> p.action.content.s])
                               ELSE st.steps,
                   last |-> p.action]
    ELSE [messages |-> Append(st.messages,
                              [role |-> "user",
                               content |-> <<"{type:observation,name:">> \o st.last.name.s
                                           \o <<",result:">> \o e.text \o <<"}">>]),
          steps |-> Append(st.steps, [type |-> "tool", name |-> st.last.name.s,
                                      args |-> OrEmptyObject(st.last.args),
                                      result |-> e.text]),
          last |-> st.last]

RECURSIVE Replay(_, _)
Replay(h, text) ==
  IF h = <<>>
    THEN [messages |-> << [role |-> "system",
                           content |-> buildSystemPrompt(getToolDefinitions)],
                          [role |-> "user", content |-> text] >>,
          steps |-> <<>>,
          last |-> NoAction]
    ELSE ReplayStep(Replay(SubSeq(h, 1, Len(h) - 1), text), h[Len(h)])

\* The messages, the steps and the return value of an invocation are those
\* its own input, completions and tool results give.
OwnEntriesOnly(inv) ==
  IF inv.messages = <<>>
    THEN inv.steps = <<>> /\ inv.heard = <<>> /\ inv.pc # "done"
    ELSE LET r == Replay(inv.heard, inv.input.s)
         IN  /\ inv.messages = r.messages
             /\ inv.steps = r.steps
             /\ inv.pc = "done" =>
                  inv.result = (IF inv.includeSteps
                                  THEN [output |-> r.last.content.s, steps |-> r.steps]
                                  ELSE [output |-> r.last.content.s])

\* C21: of two invocations whose steps interleave in any order, each has
\* exactly the messages and steps that its own input, its own completions
\* and the results of its own tool calls give, and returns the output (and
\* steps) they give; a step of one invocation changes nothing of the other,
\* and a turn of the event loop hands each its own state back unchanged.
C21_InvocationsIsolated ==
  /\ [](OwnEntriesOnly(ThisInvocation) /\ OwnEntriesOnly(waiting))
  /\ [][\/ waiting' = waiting
        \/ waiting' = ThisInvocation /\ ThisInvocation' = waiting]_vars

\* Both invocations have answered; this one read the file the other wrote.
C21_Witness ==
  /\ pc = "done"
  /\ waiting.pc = "done"
  /\ Len(steps) = 2
  /\ Len(waiting.steps) = 2
  /\ steps[1].name = <<"read_file">>
  /\ steps[1].result = <<"hi">>
  /\ waiting.steps[1].name = <<"write_file">>
  /\ messages[2] # waiting.messages[2]

----------------------------------------------------------------------------
(* Claims about two writes to one path *)

\* Both calls in flight were write_file calls on one resolved path with
\* different contents, and both have returned their confirmation.
BothWritesCompleted ==
  /\ tpc = "returned"
  /\ parked.tpc = "returned"
  /\ tname = <<"write_file">>
  /\ parked.tname = <<"write_file">>
  /\ ttarget = parked.ttarget
  /\ targs.content # parked.targs.content

\* C31: once two write_file calls on one path have both completed, the file
\* holds the content of the one that completed last.
C31_LastWriteWins ==
  BothWritesCompleted =>
    /\ ttarget \in DOMAIN files
    /\ files[ttarget] = written[ttarget]
    /\ files[ttarget] \in {targs.content.s, parked.targs.content.s}

----------------------------------------------------------------------------
(* Claims about the cached executor *)

\* C32: at most one executor is ever constructed, and every getExecutor call
\* that has returned, returned the same executor object.
C32_ExecutorConstructedOnce ==
  /\ built <= 1
  /\ \A c, d \in Callers :
       (gpc[c] = "returned" /\ gpc[d] = "returned") => gret[c] = gret[d]

----------------------------------------------------------------------------
(* Claims about the tools called one after the other *)

\* C33: of calls made one after the other, a write_file that succeeds leaves
\* exactly its content in the file, whatever an earlier write_file left
\* there, and returns "Wrote " followed by the filePath argument as given;
\* a read_file of a path written before returns the content of the last
\* write_file that succeeded on it.
C33_WriteOverwrites ==
  /\ [][(tpc = "writeData" /\ tpc' = "returned")
          => /\ tret' = <<"Wrote ">> \o targs.filePath.s
             /\ files'[ttarget] = targs.content.s
             /\ written'[ttarget] = targs.content.s]_vars
  /\ [](\A q \in DOMAIN written :
          ~(tpc = "writeData" /\ ttarget = q) => files[q] = written[q])
  /\ [][(tpc = "readFile" /\ tpc' # "readFile" /\ ttarget \in DOMAIN written)
          => (tpc' = "returned" /\ tret' = written[ttarget])]_vars

\* read_file("a") returns "hi" after a write_file of "yo!" and then a
\* write_file of "hi" to that file.
C33_Witness ==
  /\ tpc = "returned"
  /\ tname = <<"read_file">>
  /\ targs.filePath.s = <<"a">>
  /\ tret = <<"hi">>
  /\ ttarget \in DOMAIN previous
  /\ previous[ttarget] = <<"yo", "!">>
  /\ written[ttarget] = <<"hi">>

----------------------------------------------------------------------------
(* Claims about rejected calls *)

\* A new call of runTool is made in this step.
NewCall == tpc \in {"idle", "returned", "threw"} /\ tops' = <<>> /\ tpc' # "idle"

\* C34: a write_file call whose filePath or content is missing, not a string,
\* empty or all white space is rejected in the step that makes it, with the
\* error that names the first such field, and that step leaves every
\* directory and every file as it was.
C34_InvalidWriteChangesNothing ==
  [][(/\ NewCall
      /\ tname' = <<"write_file">>
      /\ targs'.t = "object"
      /\ ~NonBlankString(targs'.filePath) \/ ~NonBlankString(targs'.content))
       => /\ tpc' = "threw"
          /\ terr' = (IF ~NonBlankString(targs'.filePath)
                        THEN <<"filePath", " must be a non-empty string.">>
                        ELSE <<"content", " must be a non-empty string.">>)
          /\ dirs' = dirs
          /\ files' = files]_vars

\* write_file of white space to the existing file a: rejected, the file as before.
C34_Witness ==
  /\ tpc = "threw"
  /\ tname = <<"write_file">>
  /\ targs = ArgsObject(Str(<<"a">>), Str(<<" ">>), FALSE)
  /\ terr = <<"content", " must be a non-empty string.">>
  /\ tops = <<>>
  /\ SandboxFile \in DOMAIN files
  /\ files[SandboxFile] = <<"old">>
  /\ written = NoWrites

----------------------------------------------------------------------------
(* Claims about the listing *)

\* The lines of a text.
LinesOf(text) ==
  {SubSeq(text, p[1], p[2]) :
     p \in {q \in (1..Len(text)) \X (1..Len(text)) :
              /\ q[1] <= q[2]
              /\ \A m \in q[1]..q[2] : text[m] # "\n"
              /\ q[1] = 1 \/ text[q[1] - 1] = "\n"
              /\ q[2] = Len(text) \/ text[q[2] + 1] = "\n"}}

\* The first segment below the sandbox root of a path under it.
TopLevelName(q) == Segments(q)[Len(Segments(SANDBOX_DIR)) + 1]

\* C35: in a sandbox that started without entries, once some write_file has
\* succeeded a list_files that returns, returns one line per top-level name
\* of the files written, each once, and nothing else: no name of a nested
\* level and no marker; before any write it returns the marker; a write
\* creates the directories between the root and its file.
C35_ListingIsTopLevelOnly ==
  /\ ListFilesReturned =>
       IF DOMAIN written = {}
         THEN tret = EmptyMarker
         ELSE /\ LinesOf(tret) = {TopLevelName(q) : q \in DOMAIN written}
              /\ Len(tret) = 2 * Cardinality(LinesOf(tret)) - 1
  /\ \A q \in DOMAIN written :
       /\ q \in DOMAIN files
       /\ \A k \in (Len(Segments(SANDBOX_DIR)) + 1)..(Len(Segments(q)) - 1) :
            AbsolutePath(SubSeq(Segments(q), 1, k)) \in dirs

\* list_files returns "a" alone after a write to a/b/c.txt.
C35_Witness ==
  /\ ListFilesReturned
  /\ tret = <<"a">>
  /\ DOMAIN written = {SANDBOX_DIR \o <<sep, "a", sep, "b", sep, "c.txt">>}
  /\ SANDBOX_DIR \o <<sep, "a", sep, "b">> \in dirs

\* The args object has a key.
HasKey(args) ==
  args.t = "object"
  /\ (args.filePath.t # "absent" \/ args.content.t # "absent" \/ args.extra)

ListFilesArgsError == <<"list_files does not accept arguments.">>

\* C36: a list_files call whose args object has a key has thrown the
\* invalid-arguments error of list_files, with no listing and no filesystem
\* operation; the step in which the loop makes such a call and the step in
\* which its rejection arrives leave every directory and file as they were,
\* and the invocation has then failed with that error, no step recorded.
C36_ListFilesWithKeysRejected ==
  /\ []((tpc # "idle" /\ tname = <<"list_files">> /\ HasKey(targs))
          => (tpc = "threw" /\ terr = ListFilesArgsError /\ tret = <<>> /\ tops = <<>>))
  /\ [](error = ListFilesArgsError
          => /\ pc = "failed"
             /\ result = NoResult
             /\ tops = <<>>
             /\ Len(steps) = iteration
             /\ Len(execLog) = iteration
             /\ toolExecs = iteration + 1)
  /\ [][(pc = "awaitModel" /\ pc' = "awaitTool" /\ tname' = <<"list_files">>
           /\ HasKey(targs'))
          => (tpc' = "threw" /\ dirs' = dirs /\ files' = files)]_vars
  /\ [][(pc = "awaitTool" /\ tpc = "threw" /\ terr = ListFilesArgsError)
          => (pc' = "failed" /\ error' = ListFilesArgsError
              /\ dirs' = dirs /\ files' = files)]_vars

\* The model asks for list_files with a filePath after one good listing.
C36_Witness ==
  /\ pc = "failed"
  /\ error = ListFilesArgsError
  /\ iteration = 1
  /\ content = <<"{type:tool,name:list_files,args:{filePath:a}}">>
  /\ targs = ArgsObject(Str(<<"a">>), Absent, FALSE)
  /\ tops = <<>>

----------------------------------------------------------------------------
(* Claims about read_file *)

\* The path leads out of the sandbox root.
Escapes(userPath) == ~AtOrUnderRoot(SegmentsOfJoined(SANDBOX_DIR, userPath))

ReadFileRuns == tname = <<"read_file">> /\ tpc \in {"ensureSandbox", "readFile"}

\* C37: a read_file whose target is not an existing file is rejected by the
\* read; a read_file whose path leads out of the sandbox is rejected with the
\* path-escape error and never reaches the read; and no step of a read_file
\* call changes a file or a directory, but for the creation of the sandbox
\* root.
C37_FailedReadChangesNothing ==
  /\ [][(tname = <<"read_file">> /\ tpc = "readFile" /\ ttarget \notin DOMAIN files)
          => (tpc' = "threw" /\ terr' \in {<<"ENOENT">>, <<"EISDIR">>})]_vars
  /\ [][(tname = <<"read_file">> /\ tpc = "ensureSandbox" /\ Escapes(targs.filePath.s))
          => (tpc' = "threw" /\ terr' = PathEscapeError(targs.filePath.s))]_vars
  /\ []((tname = <<"read_file">> /\ tpc = "readFile") => ~Escapes(targs.filePath.s))
  /\ [][ReadFileRuns => (files' = files /\ dirs' \in {dirs, dirs \cup {SANDBOX_DIR}})]_vars
  /\ [][(NewCall /\ tname' = <<"read_file">>) => (files' = files /\ dirs' = dirs)]_vars

\* read_file of a missing file in a sandbox that this call created.
C37_Witness ==
  /\ tpc = "threw"
  /\ tname = <<"read_file">>
  /\ targs.filePath.s = <<"d", sep, "a">>
  /\ terr = <<"ENOENT">>
  /\ tops = <<FsOp("mkdir", SANDBOX_DIR), FsOp("readFile", SandboxSubdir \o <<sep, "a">>)>>
  /\ dirs = OutsideDirs0 \cup {SANDBOX_DIR}
  /\ files = OutsideFiles0

----------------------------------------------------------------------------
(* Claims about the counts of an invocation *)

ToolStepCount == Cardinality({i \in DOMAIN steps : steps[i].type = "tool"})

\* C38: at every point of an invocation the model calls made are at most
\* maxIterations, the tool executions started are at most the model calls
\* made, the tool steps recorded are as many as the tool executions that
\* returned, and an invocation that is Done made one model call more than it
\* recorded tool steps.
C38_CountsAgree ==
  /\ modelCalls <= maxIterations
  /\ toolExecs <= modelCalls
  /\ ToolStepCount = Len(execLog)
  /\ Len(execLog) <= toolExecs
  /\ pc = "done" => modelCalls = ToolStepCount + 1

\* The second tool execution failed: two started, one step recorded.
C38_Witness ==
  /\ pc = "failed"
  /\ modelCalls = 2
  /\ toolExecs = 2
  /\ ToolStepCount = 1
  /\ Len(steps) = 1
  /\ tops # <<>>

----------------------------------------------------------------------------
(* Claims about the answers of the /run-lite route *)

\* Some step of the request is waiting to happen.
RequestInProgress ==
  \/ hpc = "received"
  \/ hpc = "awaitAgent" /\ (InProgress \/ Terminated)

\* Position of a request: received, then the positions of its invocation,
\* then answered.
RequestRank ==
  CASE hpc = "received" -> 0
    [] hpc = "awaitAgent" -> 1 + Rank
    [] OTHER -> 7 * DEFAULT_MAX_ITERATIONS + 3

\* C39: a request is answered at most once, and it is answered or some step
\* of it is waiting to happen, every step moving it forward through a bounded
\* number of positions; once its invocation has ended, Done or failed, the
\* answering step can be taken; the answer is a 400 or 500 with an error and no
\* output, or a 200 with the output of the invocation and no error; a 400 is
\* given without an invocation, a 500 exactly for an invocation that failed
\* and a 200 exactly for one that is Done.
C39_ExactlyOneResponse ==
  /\ [](responses <= 1)
  /\ [](responses = 1 <=> hpc = "responded")
  /\ [](hpc = "responded" \/ RequestInProgress)
  /\ []((hpc = "awaitAgent" /\ Terminated) => ENABLED runLiteSettles)
  /\ [][RequestRank' > RequestRank]_vars
  /\ [](RequestRank <= 7 * DEFAULT_MAX_ITERATIONS + 3)
  /\ [](hpc = "responded" =>
          /\ resStatus \in {200, 400, 500}
          /\ resStatus = 200 <=> pc = "done"
          /\ resStatus = 500 <=> pc = "failed"
          /\ resStatus = 400 <=> pc = "off"
          /\ resStatus = 200 =>
               /\ "output" \in DOMAIN resBody
               /\ "error" \notin DOMAIN resBody
               /\ resBody = result
          /\ resStatus \in {400, 500} =>
               /\ DOMAIN resBody = {"error"}
               /\ resBody.error # <<>>)
  /\ [](hpc # "responded" => (resStatus = 0 /\ resBody = NoResponse))

\* A request answered 200 with output and steps after one listing.
C39_Witness ==
  /\ hpc = "responded"
  /\ responses = 1
  /\ resStatus = 200
  /\ resBody.output = <<"Done.">>
  /\ "steps" \in DOMAIN resBody
  /\ Len(resBody.steps) = 2

----------------------------------------------------------------------------
(* Claims about the registered tools *)

HandledNames == {<<"list_files">>, <<"read_file">>, <<"write_file">>}

\* The await a tool's branch of runTool goes to after ensureSandbox.
HandlerOf(name) ==
  CASE name = <<"list_files">> -> "readdir"
    [] name = <<"read_file">> -> "readFile"
    [] name = <<"write_file">> -> "mkdirParent"
    [] OTHER -> "none"

UnhandledToolError(name) == <<"Unhandled tool: ">> \o name

\* The names the system prompt lists under "Available tools:".
PromptToolNames(prompt) ==
  LET k == CHOOSE i \in DOMAIN prompt : prompt[i] = "Available tools:"
  IN  [i \in 1..(Len(prompt) - k) |-> <<prompt[k + i]>>]

\* C40: the system prompt of an invocation lists the registered tool names,
\* each once and nothing else; every registered name has a branch in
\* runTool; a call that passed the checks goes to the branch of its name; and
\* no call ends with the unhandled-tool error.
C40_RegisteredToolsHandled ==
  /\ [](messages # <<>> =>
          /\ messages[1].role = "system"
          /\ PromptToolNames(messages[1].content)
               = [i \in DOMAIN TOOL_DEFINITIONS |-> TOOL_DEFINITIONS[i].name])
  /\ [](TOOL_NAMES \subseteq HandledNames)
  /\ [](tpc \notin {"idle", "threw"} => tname \in TOOL_NAMES)
  /\ [][(tpc = "ensureSandbox" /\ tpc' # "threw") => tpc' = HandlerOf(tname)]_vars
  /\ [](terr # UnhandledToolError(tname))

\* The invocation is in the write_file branch in its second iteration.
C40_Witness ==
  /\ pc = "awaitTool"
  /\ tpc = "mkdirParent"
  /\ tname = <<"write_file">>
  /\ iteration = 1
  /\ messages[1].content
       = <<"You are a tool-using agent.", "Available tools:", "list_files", "read_file",
           "write_file">>

====
